---- MODULE Spec2Model ----
(***************************************************************************)
(* A model of the retrieval pipeline of apps/ai-service: the chunker, the   *)
(* embeddings service, the local cache (LocalCache / CacheFallbackService)  *)
(* and the orchestrator RAGService (initialize, retrieve_context).          *)
(*                                                                          *)
(* Representation.  A text is a sequence of one-character strings.  A       *)
(* Python dict is a function from its keys.  A chunk id, the f-string       *)
(* "{prefix}_chunk_{n}", is the pair <<prefix, n>>.  An embedding is a      *)
(* vector of integers in fixed point (Scale stands for 1.0).  A value that *)
(* a Python call raises is the record Raised, one it returns is Ok(value).  *)
(***************************************************************************)
EXTENDS Integers, Sequences, FiniteSets, TLC

\* Python's None where an object or a dict is expected
None == [none |-> TRUE]
\* Optional[str] arguments: the absent (falsy) string
NoStr == "<None>"
\* None where a text (a sequence of characters) is expected
NoText == <<NoStr>>
\* The outcome of a call that may raise: Ok(value) or Raised
Raised == [raised |-> TRUE]
Ok(v) == [raised |-> FALSE, value |-> v]
IsRaised(r) == r.raised

\* ---------------------------------------------------------------- bounds
MaxInits == 2          \* initialize() calls per behaviour
MaxTopK == 2           \* largest top_k a caller passes

\* ------------------------------------------------------ program constants
chunk_size == 500      \* rag.py: get_document_chunker(chunk_size=500, ...)
overlap == 100         \* rag.py: get_document_chunker(..., overlap=100)
upsert_batch_size == 100   \* rag.py: batch_size = 100
embed_batch_size == 10     \* embeddings.py: batch_size = 10

\* ------------------------------------------------------------ Python dicts
DictGet(d, k, default) == IF k \in DOMAIN d THEN d[k] ELSE default
DictSet(d, k, v) == [x \in (DOMAIN d) \cup {k} |-> IF x = k THEN v ELSE d[x]]
\* {**a, **b}
DictMerge(a, b) == [x \in (DOMAIN a) \cup (DOMAIN b) |-> IF x \in DOMAIN b THEN b[x] ELSE a[x]]
EmptyDict == [x \in {} |-> None]

\* ------------------------------------------------------------ Python str
IsSpace(c) == c \in {" ", "\n"}

RECURSIVE lstrip(_)
lstrip(s) == IF s = <<>> THEN s
             ELSE IF IsSpace(Head(s)) THEN lstrip(Tail(s)) ELSE s

RECURSIVE rstrip(_)
rstrip(s) == IF s = <<>> THEN s
             ELSE IF IsSpace(s[Len(s)]) THEN rstrip(SubSeq(s, 1, Len(s) - 1)) ELSE s

strip(s) == rstrip(lstrip(s))

LowerChar(c) == IF c = "A" THEN "a" ELSE IF c = "B" THEN "b" ELSE c
lower(s) == [i \in 1..Len(s) |-> LowerChar(s[i])]

\* len(text.split()): the number of maximal runs of non-whitespace
word_count(s) ==
    Cardinality({i \in 1..Len(s) : ~IsSpace(s[i]) /\ (i = 1 \/ IsSpace(s[i - 1]))})

\* text.replace("\n", " ")
replace_newlines(s) == [i \in 1..Len(s) |-> IF s[i] = "\n" THEN " " ELSE s[i]]

\* s[-k:]  (s[-0:] is the whole string)
LastChars(s, k) == IF k = 0 \/ k >= Len(s) THEN s ELSE SubSeq(s, Len(s) - k + 1, Len(s))

\* ---------------------------------------------------------------- chunker
\* ChunkingStrategy.estimate_tokens: int(len(words) * 1.3)
estimate_tokens(text) == (word_count(text) * 13) \div 10

RECURSIVE DropNewlines(_)
DropNewlines(s) == IF s # <<>> /\ Head(s) = "\n" THEN DropNewlines(Tail(s)) ELSE s

\* re.split(r'\n\n+|\n[0-9]+\.\s+', text).  The model's texts hold no digit, so
\* only the blank-line alternative can match.
RECURSIVE SplitRec(_, _, _)
SplitRec(s, cur, acc) ==
    IF s = <<>> THEN Append(acc, cur)
    ELSE IF Len(s) >= 2 /\ s[1] = "\n" /\ s[2] = "\n"
         THEN SplitRec(DropNewlines(s), <<>>, Append(acc, cur))
         ELSE SplitRec(Tail(s), Append(cur, Head(s)), acc)

\* [p.strip() for p in paragraphs if p.strip()]
split_paragraphs(text) ==
    LET raw == SplitRec(text, <<>>, <<>>)
    IN  SelectSeq([i \in 1..Len(raw) |-> strip(raw[i])], LAMBDA p : p # <<>>)

\* The chunk dict built at chunker.py:61-69 and 81-89
MakeChunk(metadata, chunk_id, text, tokens) ==
    [id       |-> <<DictGet(metadata, "id", "doc"), chunk_id>>,
     text     |-> strip(text),
     metadata |-> DictSet(DictSet(metadata, "chunk_index", chunk_id), "tokens", tokens)]

\* The loop body of chunk_by_paragraphs (chunker.py:55-76), on the loop state
\* st = [chunks, current_chunk, current_tokens, chunk_id]
ParagraphStep(st, para, metadata, size) ==
    LET para_tokens == estimate_tokens(para)
        flush == st.current_tokens + para_tokens > size /\ st.current_chunk # <<>>
        id1 == IF flush THEN st.chunk_id + 1 ELSE st.chunk_id
        chunks1 == IF flush
                   THEN Append(st.chunks,
                               MakeChunk(metadata, id1, st.current_chunk, st.current_tokens))
                   ELSE st.chunks
        kept == IF flush THEN LastChars(st.current_chunk, (size * 2) \div 10)
                ELSE st.current_chunk
        joined == IF kept # <<>> THEN kept \o <<"\n">> \o para ELSE para
    IN  [chunks |-> chunks1, current_chunk |-> joined,
         current_tokens |-> estimate_tokens(joined), chunk_id |-> id1]

RECURSIVE ParagraphLoop(_, _, _, _)
ParagraphLoop(st, paras, metadata, size) ==
    IF paras = <<>> THEN st
    ELSE ParagraphLoop(ParagraphStep(st, Head(paras), metadata, size),
                       Tail(paras), metadata, size)

\* ChunkingStrategy.chunk_by_paragraphs
chunk_by_paragraphs(text, metadata, size) ==
    LET st == ParagraphLoop([chunks |-> <<>>, current_chunk |-> <<>>,
                             current_tokens |-> 0, chunk_id |-> 0],
                            split_paragraphs(text), metadata, size)
    IN  IF strip(st.current_chunk) # <<>>
        THEN Append(st.chunks,
                    MakeChunk(metadata, st.chunk_id + 1, st.current_chunk, st.current_tokens))
        ELSE st.chunks

\* str.split(): the maximal runs of non-whitespace
split(text) ==
    LET RECURSIVE Rec(_, _, _)
        Rec(s, cur, acc) ==
            IF s = <<>> THEN (IF cur = <<>> THEN acc ELSE Append(acc, cur))
            ELSE IF IsSpace(Head(s))
                 THEN Rec(Tail(s), <<>>, IF cur = <<>> THEN acc ELSE Append(acc, cur))
                 ELSE Rec(Tail(s), Append(cur, Head(s)), acc)
    IN  Rec(text, <<>>, <<>>)

\* sep.join(parts)
join(sep, parts) ==
    LET RECURSIVE Rec(_)
        Rec(ps) == IF Len(ps) = 1 THEN ps[1] ELSE ps[1] \o sep \o Rec(Tail(ps))
    IN  IF parts = <<>> THEN <<>> ELSE Rec(parts)

\* re.split(r'(?<=[.!?])\s+', text), then [s.strip() for s in sentences if s.strip()]
split_sentences(text) ==
    LET RECURSIVE Rec(_, _, _)
        Rec(s, cur, acc) ==
            IF s = <<>> THEN Append(acc, cur)
            ELSE IF IsSpace(Head(s)) /\ cur # <<>> /\ cur[Len(cur)] \in {".", "!", "?"}
                 THEN Rec(lstrip(s), <<>>, Append(acc, cur))
                 ELSE Rec(Tail(s), Append(cur, Head(s)), acc)
    IN  SelectSeq([i \in 1..Len(Rec(text, <<>>, <<>>)) |-> strip(Rec(text, <<>>, <<>>)[i])],
                  LAMBDA sent : sent # <<>>)

\* chunker.py:131-139: the sentences kept for overlap, taken from the end of
\* `prev` while their tokens fit in `ovl`
SentenceOverlap(prev, ovl) ==
    LET RECURSIVE Rec(_, _, _)
        Rec(k, kept, temp_tokens) ==
            IF k = 0 THEN kept
            ELSE IF temp_tokens + estimate_tokens(prev[k]) <= ovl
                 THEN Rec(k - 1, <<prev[k]>> \o kept, temp_tokens + estimate_tokens(prev[k]))
                 ELSE kept
    IN  Rec(Len(prev), <<>>, 0)

\* The loop body of chunk_by_sentences (chunker.py:114-146);
\* sentences.index(sentence) is the first position holding an equal sentence
SentenceStep(st, sentence, sentences, metadata, size, ovl) ==
    LET flush == st.current_tokens + estimate_tokens(sentence) > size /\ st.current_chunk # <<>>
        first == CHOOSE j \in 1..Len(sentences) :
                     sentences[j] = sentence /\ \A m \in 1..(j - 1) : sentences[m] # sentence
        id1 == IF flush THEN st.chunk_id + 1 ELSE st.chunk_id
        chunks1 == IF flush
                   THEN Append(st.chunks,
                               MakeChunk(metadata, id1, st.current_chunk, st.current_tokens))
                   ELSE st.chunks
        kept == IF flush
                THEN join(<<" ">>, SentenceOverlap(SubSeq(sentences, 1, first - 1), ovl))
                ELSE st.current_chunk
        joined == IF kept # <<>> THEN kept \o <<" ">> \o sentence ELSE sentence
    IN  [chunks |-> chunks1, current_chunk |-> joined,
         current_tokens |-> estimate_tokens(joined), chunk_id |-> id1]

\* ChunkingStrategy.chunk_by_sentences
chunk_by_sentences(text, metadata, size, ovl) ==
    LET RECURSIVE Loop(_, _)
        Loop(st, k) ==
            IF k > Len(split_sentences(text)) THEN st
            ELSE Loop(SentenceStep(st, split_sentences(text)[k], split_sentences(text),
                                   metadata, size, ovl), k + 1)
        end == Loop([chunks |-> <<>>, current_chunk |-> <<>>,
                     current_tokens |-> 0, chunk_id |-> 0], 1)
    IN  IF strip(end.current_chunk) # <<>>
        THEN Append(end.chunks,
                    MakeChunk(metadata, end.chunk_id + 1, end.current_chunk, end.current_tokens))
        ELSE end.chunks

\* ChunkingStrategy.chunk_fixed_size.  int(x / 1.3) is (10 * x) div 13 for the
\* non-negative sizes used; range(0, n, 0) raises ValueError, and a negative
\* step gives an empty range.
chunk_fixed_size(text, metadata, size, ovl) ==
    LET words == split(text)
        chunk_words == (size * 10) \div 13
        overlap_words == (ovl * 10) \div 13
        step == chunk_words - overlap_words
        Slice(k) == SubSeq(words, (k - 1) * step + 1,
                           IF (k - 1) * step + chunk_words < Len(words)
                           THEN (k - 1) * step + chunk_words ELSE Len(words))
    IN  IF step = 0 THEN Raised
        ELSE IF step < 0 THEN Ok(<<>>)
        ELSE Ok([k \in 1..((Len(words) + step - 1) \div step) |->
                    MakeChunk(metadata, k, join(<<" ">>, Slice(k)),
                              estimate_tokens(join(<<" ">>, Slice(k))))])

\* DocumentChunker.chunk_document(text, metadata, strategy) of a chunker built
\* with chunk_size=size, overlap=ovl; an unknown strategy means paragraphs
chunk_with_strategy(strategy, text, metadata, size, ovl) ==
    IF strategy = "sentences" THEN Ok(chunk_by_sentences(text, metadata, size, ovl))
    ELSE IF strategy = "fixed" THEN chunk_fixed_size(text, metadata, size, ovl)
    ELSE Ok(chunk_by_paragraphs(text, metadata, size))

\* DocumentChunker.chunk_document with strategy='paragraphs'
chunk_document(text, metadata) == chunk_by_paragraphs(text, metadata, chunk_size)

RECURSIVE ChunkAll(_)
\* rag.py:98-105: self.documents = []; for doc in all_documents: extend(chunks)
ChunkAll(docs) ==
    IF docs = <<>> THEN <<>>
    ELSE chunk_document(Head(docs).text, Head(docs).metadata) \o ChunkAll(Tail(docs))

\* -------------------------------------------------------------- embedder
\* The model's stand-in for EmbeddingsService.embedding_dim (1536 in the code)
embedding_dim == 2
\* Fixed point: Scale stands for 1.0
Scale == 1000

RECURSIVE IsqrtRec(_, _, _)
IsqrtRec(n, lo, hi) ==
    IF lo >= hi THEN lo
    ELSE LET mid == (lo + hi + 1) \div 2
         IN  IF mid * mid <= n THEN IsqrtRec(n, mid, hi) ELSE IsqrtRec(n, lo, mid - 1)
\* floor(sqrt(n))
Isqrt(n) == IsqrtRec(n, 0, IF n < 46340 THEN n ELSE 46340)

CharCode(c) == CASE c = "a" -> 1 [] c = "b" -> 2 [] c = "A" -> 3 [] c = "B" -> 4
                 [] c = " " -> 5 [] c = "\n" -> 6 [] OTHER -> 7

RECURSIVE HashFold(_, _)
HashFold(s, h) == IF s = <<>> THEN h
                  ELSE HashFold(Tail(s), (h * 31 + CharCode(Head(s))) % 251)

\* hashlib.sha256(text.encode()).digest(): a fixed function of the text to a
\* byte string; the model's digest has 4 bytes in 0..255.
DigestOf(h) == [k \in 1..4 |-> (h * (17 * k + 3) + 89 * k) % 256]
sha256(s) == DigestOf(HashFold(s, 7))

\* embeddings.py:119-120 in units of 1/255:
\* combined = (b1 + b2) / 255.0; value = (combined - 0.5) * 2.0
combine(b1, b2) == 2 * (b1 + b2) - 255

RECURSIVE DotRec(_, _, _)
DotRec(v, w, i) == IF i = 0 THEN 0 ELSE v[i] * w[i] + DotRec(v, w, i - 1)
\* sum(x * y for x, y in zip(v, w))
Dot(v, w) == DotRec(v, w, Len(v))

\* embedding = [x / magnitude for x in embedding]  (if magnitude > 0)
DivideBy(v, m) == IF m > 0 THEN [i \in 1..Len(v) |-> (v[i] * Scale) \div m] ELSE v
normalize(v) == DivideBy(v, Isqrt(Dot(v, v)))

\* _local_embed hashing the text as given, neither lower-cased nor trimmed
_local_embed_raw_text(text) ==
    normalize([i \in 1..embedding_dim |->
        combine(sha256(text)[(((i - 1) * 2) % Len(sha256(text))) + 1],
                sha256(text)[(((i - 1) * 2 + 1) % Len(sha256(text))) + 1])])

\* EmbeddingsService._local_embed
RawEmbedding(hash_bytes) ==
    [i \in 1..embedding_dim |->
        combine(hash_bytes[(((i - 1) * 2) % Len(hash_bytes)) + 1],
                hash_bytes[(((i - 1) * 2 + 1) % Len(hash_bytes)) + 1])]
_local_embed(text) == normalize(RawEmbedding(sha256(strip(lower(text)))))

\* client.embeddings.create(...).data[k].embedding: the provider's vector for
\* one cleaned input, a fixed function of the text (a different one from the
\* local hash embedding).
ProviderRaw(h) == [i \in 1..embedding_dim |-> ((h * (13 * i + 5)) % 201) - 100]
NonZero(v) == IF Dot(v, v) = 0 THEN [i \in 1..Len(v) |-> 1] ELSE v
provider_embed(text) == normalize(NonZero(ProviderRaw(HashFold(replace_newlines(text), 11))))

\* EmbeddingsService.embed_text; provider_fails: the provider call raises
embed_text(text, use_local_fallback, provider_fails) ==
    IF use_local_fallback THEN _local_embed(text)
    ELSE IF provider_fails THEN _local_embed(text)
    ELSE provider_embed(text)

\* number of request batches of embed_documents
NumBatches(n, size) == (n + size - 1) \div size

\* embed_documents returning what the batches before the failing one gave
embed_documents_keeps_partial(texts, use_local_fallback, fail_at) ==
    IF use_local_fallback THEN [i \in 1..Len(texts) |-> _local_embed(texts[i])]
    ELSE IF fail_at \in 1..NumBatches(Len(texts), embed_batch_size)
         THEN [i \in 1..((fail_at - 1) * embed_batch_size) |-> provider_embed(texts[i])]
    ELSE [i \in 1..Len(texts) |-> provider_embed(texts[i])]

\* embed_documents falling back only from the failing batch on
embed_documents_per_batch(texts, use_local_fallback, fail_at) ==
    IF use_local_fallback THEN [i \in 1..Len(texts) |-> _local_embed(texts[i])]
    ELSE IF fail_at \in 1..NumBatches(Len(texts), embed_batch_size)
         THEN [i \in 1..Len(texts) |->
                  IF i <= (fail_at - 1) * embed_batch_size
                  THEN provider_embed(texts[i]) ELSE _local_embed(texts[i])]
    ELSE [i \in 1..Len(texts) |-> provider_embed(texts[i])]

\* EmbeddingsService.embed_documents; fail_at: the batch (1-based) whose
\* provider call raises, 0 when none does
embed_documents(texts, use_local_fallback, fail_at) ==
    IF use_local_fallback THEN [i \in 1..Len(texts) |-> _local_embed(texts[i])]
    ELSE IF fail_at \in 1..NumBatches(Len(texts), embed_batch_size)
         THEN [i \in 1..Len(texts) |-> _local_embed(texts[i])]
    ELSE [i \in 1..Len(texts) |-> provider_embed(texts[i])]

\* ------------------------------------------------- insertion-ordered dicts
\* A dict whose iteration order matters is a sequence of [k, v] with distinct k.
ODictHas(d, k) == \E i \in 1..Len(d) : d[i].k = k
ODictGet(d, k) == d[CHOOSE i \in 1..Len(d) : d[i].k = k].v
ODictSet(d, k, v) ==
    IF ODictHas(d, k)
    THEN [i \in 1..Len(d) |-> IF d[i].k = k THEN [k |-> k, v |-> v] ELSE d[i]]
    ELSE Append(d, [k |-> k, v |-> v])
ODictKeys(d) == {d[i].k : i \in 1..Len(d)}

\* ------------------------------------------------------------- LocalCache
EmptyCache == [documents |-> <<>>, embeddings |-> <<>>, metadata_index |-> <<>>]

\* LocalCache.add_document
add_document(c, doc_id, text, embedding, metadata) ==
    [documents      |-> Append(c.documents,
                               [id |-> doc_id, text |-> text, metadata |-> metadata]),
     embeddings     |-> ODictSet(c.embeddings, doc_id, embedding),
     metadata_index |-> ODictSet(c.metadata_index, doc_id, metadata)]

RECURSIVE AddAll(_, _)
\* the loop of LocalCache.add_batch, before the save
AddAll(c, docs) ==
    IF docs = <<>> THEN c
    ELSE AddAll(add_document(c, Head(docs).id, Head(docs).text,
                             Head(docs).embedding, Head(docs).metadata),
                Tail(docs))

\* The backing file: absent, not parseable as JSON, or a JSON document
MissingFile == [state |-> "missing"]
CorruptFile == [state |-> "corrupt"]

\* The JSON document _save_cache writes
json_dump(c) == [documents |-> c.documents, embeddings |-> c.embeddings,
                 metadata_index |-> c.metadata_index, cached_at |-> "utcnow"]

\* LocalCache._save_cache: the file afterwards.  outcome "ok": written;
\* "open_fails": open() raises, the file is untouched; "dump_fails": the file
\* was truncated by open(..., 'w') and the write stopped part-way.
_save_cache(c, file, outcome) ==
    CASE outcome = "ok" -> json_dump(c)
      [] outcome = "open_fails" -> file
      [] OTHER -> CorruptFile

\* _load_cache without its except clause: a file that does not parse raises
_load_cache_unguarded(file) ==
    IF file = MissingFile THEN EmptyCache
    ELSE IF file = CorruptFile THEN Raised
    ELSE [documents |-> file.documents, embeddings |-> file.embeddings,
          metadata_index |-> file.metadata_index]

\* _load_cache reading only the documents of the file
_load_cache_documents_only(file) ==
    IF file = MissingFile THEN EmptyCache
    ELSE IF file = CorruptFile THEN EmptyCache
    ELSE [documents |-> file.documents, embeddings |-> <<>>, metadata_index |-> <<>>]

\* LocalCache._load_cache: the store a new LocalCache starts with
_load_cache(file) ==
    IF file = MissingFile THEN EmptyCache
    ELSE IF file = CorruptFile THEN EmptyCache
    ELSE [documents |-> file.documents, embeddings |-> file.embeddings,
          metadata_index |-> file.metadata_index]

\* LocalCache.cosine_similarity, in fixed point; np.dot raises ValueError on
\* vectors of different lengths
CosineOf(dot_product, magnitude1, magnitude2) ==
    IF magnitude1 = 0 \/ magnitude2 = 0 THEN Ok(0)
    ELSE Ok((dot_product * Scale) \div (magnitude1 * magnitude2))
cosine_similarity(vec1, vec2) ==
    IF vec1 = <<>> \/ vec2 = <<>> THEN Ok(0)
    ELSE IF Len(vec1) # Len(vec2) THEN Raised
    ELSE CosineOf(Dot(vec1, vec2), Isqrt(Dot(vec1, vec1)), Isqrt(Dot(vec2, vec2)))

\* all(doc_metadata.get(k) == v for k, v in metadata_filter.items())
MatchesFilter(doc_metadata, metadata_filter) ==
    \A k \in DOMAIN metadata_filter :
        k \in DOMAIN doc_metadata /\ doc_metadata[k] = metadata_filter[k]

RECURSIVE InsertDesc_before_equals(_, _)
\* a sort that puts x in front of the pairs of equal score
InsertDesc_before_equals(sorted, x) ==
    IF sorted = <<>> THEN <<x>>
    ELSE IF Head(sorted).score > x.score
         THEN <<Head(sorted)>> \o InsertDesc_before_equals(Tail(sorted), x)
    ELSE <<x>> \o sorted

RECURSIVE InsertDesc(_, _)
\* where list.sort(key=score, reverse=True), a stable sort, puts x
InsertDesc(sorted, x) ==
    IF sorted = <<>> THEN <<x>>
    ELSE IF Head(sorted).score >= x.score THEN <<Head(sorted)>> \o InsertDesc(Tail(sorted), x)
    ELSE <<x>> \o sorted

\* SortDesc without the sort: the pairs stay in scan order
SortDesc_unsorted(s) == s

RECURSIVE SortDesc(_)
SortDesc(s) == IF s = <<>> THEN <<>>
               ELSE InsertDesc(SortDesc(SubSeq(s, 1, Len(s) - 1)), s[Len(s)])

Prefix(s, k) == SubSeq(s, 1, IF k < Len(s) THEN k ELSE Len(s))

\* next((d for d in docs if d['id'] == doc_id), None)
FirstWithId(docs, doc_id) ==
    IF \E i \in 1..Len(docs) : docs[i].id = doc_id
    THEN docs[CHOOSE i \in 1..Len(docs) :
                 docs[i].id = doc_id /\ \A j \in 1..(i - 1) : docs[j].id # doc_id]
    ELSE None

\* LocalCache.search; metadata_filter is None or a dict.
\* the filter test of the scan (cache_fallback.py:161-164)
Candidates(c, metadata_filter) ==
    SelectSeq(c.embeddings, LAMBDA e :
        \/ metadata_filter = None
        \/ metadata_filter = EmptyDict
        \/ MatchesFilter(IF ODictHas(c.metadata_index, e.k)
                         THEN ODictGet(c.metadata_index, e.k) ELSE EmptyDict,
                         metadata_filter))

\* the similarity of every candidate, each Ok(score) or Raised
Similarities(cand, query_embedding) ==
    [i \in 1..Len(cand) |-> cosine_similarity(query_embedding, cand[i].v)]

\* the (doc_id, score) pairs of the scan, in scan order
Scores(cand, sims) == [i \in 1..Len(cand) |-> [doc_id |-> cand[i].k, score |-> sims[i].value]]

\* cache_fallback.py:174-182: the result dict of every top pair that has a document
ResultDicts(c, top) ==
    [i \in 1..Len(top) |->
        [id |-> top[i].doc_id, text |-> FirstWithId(c.documents, top[i].doc_id).text,
         score |-> top[i].score, metadata |-> FirstWithId(c.documents, top[i].doc_id).metadata]]

TopResults(c, scores, top_k) ==
    ResultDicts(c, SelectSeq(Prefix(SortDesc(scores), top_k),
                             LAMBDA t : FirstWithId(c.documents, t.doc_id) # None))

Ranked(c, cand, sims, top_k) ==
    IF \E i \in 1..Len(sims) : IsRaised(sims[i]) THEN Raised
    ELSE Ok(TopResults(c, Scores(cand, sims), top_k))

Scan(c, cand, query_embedding, top_k) ==
    Ranked(c, cand, Similarities(cand, query_embedding), top_k)

search(c, query_embedding, top_k, metadata_filter) ==
    IF c.embeddings = <<>> THEN Ok(<<>>)
    ELSE Scan(c, Candidates(c, metadata_filter), query_embedding, top_k)

\* CacheFallbackService.search_cache
OrEmpty(results) == IF IsRaised(results) THEN <<>> ELSE results.value
search_cache(c, query, top_k, metadata_filter, use_local_fallback, provider_fails) ==
    OrEmpty(search(c, embed_text(query, use_local_fallback, provider_fails),
                   top_k, metadata_filter))

\* -------------------------------------------------- knowledge base ingestor
\* The knowledge-base file: absent, not parseable, or the JSON it holds.  The
\* model's knowledge bases have no "general_topics" and no "faqs" key.
KBEmpty == [countries |-> <<>>]
KBUsa == [countries |->
            <<[name |-> "USA", code |-> "US", description |-> <<"b", " ", "a">>,
               visa_types |-> <<[name |-> "tourist", text |-> <<"a", "\n", "b">>]>>]>>]
KBFiles == {MissingFile, CorruptFile, KBEmpty, KBUsa}

\* KnowledgeBaseIngestor.load_knowledge_base: whether the file loads
load_knowledge_base(file) == file # MissingFile /\ file # CorruptFile

\* the documents extract_visa_documents appends for one country; the f-string
\* templates around the knowledge base's own text are left out of the texts
CountryDocuments(c) ==
    <<[id |-> <<"country_overview", c.code>>, text |-> c.description,
       metadata |-> [type |-> "country_overview", country |-> c.name,
                     country_code |-> c.code, source |-> "visa_kb"]]>>
    \o [i \in 1..Len(c.visa_types) |->
          [id |-> <<"visa", c.code, c.visa_types[i].name>>, text |-> c.visa_types[i].text,
           metadata |-> [type |-> "visa_info", country |-> c.name, country_code |-> c.code,
                         visa_type |-> c.visa_types[i].name, source |-> "visa_kb"]]]

RECURSIVE ExtractCountries(_)
ExtractCountries(cs) ==
    IF cs = <<>> THEN <<>> ELSE CountryDocuments(Head(cs)) \o ExtractCountries(Tail(cs))

\* KnowledgeBaseIngestor.extract_visa_documents
extract_visa_documents(kb) == ExtractCountries(kb.countries)

\* KnowledgeBaseIngestor.prepare_all_documents
prepare_all_documents(kb) == extract_visa_documents(kb)

\* KnowledgeBaseIngestor.add_supplementary_documents: three fixed documents
add_supplementary_documents ==
    <<[id |-> "visa_process_general", text |-> <<"\n", "a", "\n">>,
       metadata |-> [type |-> "guide", topic |-> "General Visa Application Process",
                     source |-> "internal"]],
      [id |-> "document_requirements_guide", text |-> <<"\n", "b", "\n">>,
       metadata |-> [type |-> "guide", topic |-> "Document Requirements",
                     source |-> "internal"]],
      [id |-> "visa_refusal_handling", text |-> <<"\n", "a", " ", "b", "\n">>,
       metadata |-> [type |-> "guide", topic |-> "Visa Refusal Handling",
                     source |-> "internal"]]>>

\* KnowledgeBaseIngestor.get_all_documents, given self.documents after the
\* "if not self.documents: self.prepare_all_documents()" refresh
get_all_documents(kb_docs) == kb_docs \o add_supplementary_documents

\* ----------------------------------------------------------- remote index
IndexHandle == [name |-> "visabuddy-visa-kb"]
ConnectOutcomes == {"import_error", "exception", "index_missing", "connected"}

RECURSIVE pinecone_upsert(_, _)
\* index.upsert(vectors=batch): the index afterwards
pinecone_upsert(remote, batch) ==
    IF batch = <<>> THEN remote
    ELSE pinecone_upsert(ODictSet(remote, Head(batch).id,
                                  [values |-> Head(batch).values,
                                   metadata |-> Head(batch).metadata]),
                         Tail(batch))

\* index.query(vector, top_k, include_metadata=True, filter): the response of
\* a query the service answers
RemoteCandidates(remote, metadata_filter) ==
    SelectSeq(remote, LAMBDA e :
        metadata_filter = None \/ MatchesFilter(e.v.metadata, metadata_filter))
RemoteSimilarities(cand, vector) ==
    [i \in 1..Len(cand) |-> cosine_similarity(vector, cand[i].v.values)]
RemoteScored(cand, sims) ==
    [i \in 1..Len(cand) |->
        [id |-> cand[i].k, score |-> sims[i].value, metadata |-> cand[i].v.metadata]]
RemoteRanked(cand, sims, top_k) ==
    IF \E i \in 1..Len(sims) : IsRaised(sims[i]) THEN Raised
    ELSE Ok([matches |-> Prefix(SortDesc(RemoteScored(cand, sims)), top_k)])
RemoteScan(cand, vector, top_k) == RemoteRanked(cand, RemoteSimilarities(cand, vector), top_k)
pinecone_query(remote, vector, top_k, metadata_filter) ==
    RemoteScan(RemoteCandidates(remote, metadata_filter), vector, top_k)

\* ----------------------------------------------------------- RAGService
\* rag.py:307-311 and 359-363: only truthy fields enter the filter
BuildFilter(country, visa_type) ==
    DictMerge(IF country # NoStr THEN [country |-> country] ELSE EmptyDict,
              IF visa_type # NoStr THEN [visa_type |-> visa_type] ELSE EmptyDict)

\* metadata_filter if metadata_filter else None
FilterOrNone(f) == IF f = EmptyDict THEN None ELSE f

\* metadata.get("country", metadata.get("topic", "Unknown"))
SourceLabel(metadata) == DictGet(metadata, "country", DictGet(metadata, "topic", "Unknown"))

\* the dict both retrieval paths return on success
ContextDict(items, query) ==
    [documents |-> items, query |-> query,
     sources |-> [i \in 1..Len(items) |-> items[i].source], count |-> Len(items)]

\* RAGService._get_document_text_from_cache
TextOrNone(doc) == IF doc # None THEN doc.text ELSE NoText
_get_document_text_from_cache(docs, doc_id) == TextOrNone(FirstWithId(docs, doc_id))

\* f"Document: {match['id']}"
DocumentLabel(doc_id) == <<"Document: ", doc_id[1], "_chunk_", ToString(doc_id[2])>>

\* RAGService._retrieve_from_pinecone.  query_raises: index.query raises
\* text or f"Document: {match['id']}"
ContentOr(text, doc_id) == IF text # NoText /\ text # <<>> THEN text ELSE DocumentLabel(doc_id)

\* the context item of one match (rag.py:323-332)
MatchItem(docs, match) ==
    [source |-> SourceLabel(match.metadata),
     type |-> DictGet(match.metadata, "type", "unknown"),
     score |-> match.score,
     content |-> ContentOr(_get_document_text_from_cache(docs, match.id), match.id)]

MatchItems(docs, matches) == [i \in 1..Len(matches) |-> MatchItem(docs, matches[i])]

\* FormatResponse with an except clause that returns an error dict, not None
FormatResponse_error_dict(docs, search_results, query) ==
    IF IsRaised(search_results) THEN [error |-> "str(e)"]
    ELSE ContextDict(MatchItems(docs, search_results.value.matches), query)

\* rag.py:321-345: the formatted response, None when the try block raised
FormatResponse(docs, search_results, query) ==
    IF IsRaised(search_results) THEN None
    ELSE ContextDict(MatchItems(docs, search_results.value.matches), query)

_retrieve_from_pinecone(docs, remote, query, country, visa_type, top_k, use_fallback, provider_fails, query_raises) ==
    FormatResponse(docs,
                   IF query_raises THEN Raised
                   ELSE pinecone_query(remote, embed_text(query, use_fallback, provider_fails),
                                       top_k, FilterOrNone(BuildFilter(country, visa_type))),
                   query)

\* RAGService._retrieve_from_cache
\* the context items of the cache results (rag.py:373-381)
ResultItems(results) ==
    [i \in 1..Len(results) |->
        [source |-> SourceLabel(results[i].metadata),
         type |-> DictGet(results[i].metadata, "type", "unknown"),
         score |-> results[i].score,
         content |-> results[i].text]]

_retrieve_from_cache(c, query, country, visa_type, top_k, use_fallback, provider_fails) ==
    ContextDict(ResultItems(search_cache(c, query, top_k,
                                         FilterOrNone(BuildFilter(country, visa_type)),
                                         use_fallback, provider_fails)),
                query)

\* {"documents": [], "query": query, "sources": [], "source": "none"}
NoneResult(query) ==
    [documents |-> <<>>, query |-> query, sources |-> <<>>, source |-> "none"]

\* the dict the except clause of retrieve_context returns (rag.py:290)
ErrorResult(query) ==
    [documents |-> <<>>, query |-> query, sources |-> <<>>, error |-> "str(e)",
     source |-> "none"]

\* {**results, "source": tag}: raises TypeError when results is None
WithSource(results, tag) ==
    IF results = None THEN Raised ELSE Ok(DictSet(results, "source", tag))

\* Python truthiness of an Optional[dict]
Truthy(r) == r # None /\ r # EmptyDict

\* What a call of retrieve_context gives: the returned dict (the except clause
\* of rag.py:288-290 turns a raise into ErrorResult), whether the remote index
\* was queried and whether the local cache was searched.
Returned(inp, body, remote_queried, local_searched) ==
    [result |-> IF IsRaised(body) THEN ErrorResult(inp.query) ELSE body.value,
     remote_queried |-> remote_queried,
     local_searched |-> local_searched]

\* cache_or_none searching the store without looking at cache_populated
cache_or_none_ignores_flag(sv, inp, remote_queried) ==
    Returned(inp,
             WithSource(_retrieve_from_cache(sv.cache, inp.query, inp.country,
                            inp.visa_type, inp.top_k, sv.use_local_fallback,
                            inp.provider_fails_cache),
                        "cache"),
             remote_queried, TRUE)

\* rag.py:271-286: the cache fallback, or "No retrieval system available"
cache_or_none(sv, inp, remote_queried) ==
    IF sv.cache_populated
    THEN Returned(inp,
                  WithSource(_retrieve_from_cache(sv.cache, inp.query, inp.country,
                                 inp.visa_type, inp.top_k, sv.use_local_fallback,
                                 inp.provider_fails_cache),
                             "cache"),
                  remote_queried, TRUE)
    ELSE Returned(inp, Ok(NoneResult(inp.query)), remote_queried, FALSE)

\* after_remote without the fall through to the cache
after_remote_gives_up(sv, inp, results) ==
    IF Truthy(results) THEN Returned(inp, WithSource(results, "pinecone"), TRUE, FALSE)
    ELSE Returned(inp, Ok(NoneResult(inp.query)), TRUE, FALSE)

\* after_remote testing "if results and results['documents']:"
after_remote_needs_matches(sv, inp, results) ==
    IF Truthy(results) /\ results.documents # <<>>
    THEN Returned(inp, WithSource(results, "pinecone"), TRUE, FALSE)
    ELSE cache_or_none(sv, inp, TRUE)

\* rag.py:265-269: "if results:" after the remote query
after_remote(sv, inp, results) ==
    IF Truthy(results) THEN Returned(inp, WithSource(results, "pinecone"), TRUE, FALSE)
    ELSE cache_or_none(sv, inp, TRUE)

\* RAGService.retrieve_context.  sv: the fields of the service the call reads;
\* inp: the arguments and the outcomes of the outbound calls it makes.
retrieve_context(sv, inp) ==
    IF ~sv.initialized THEN Returned(inp, Ok(NoneResult(inp.query)), FALSE, FALSE)
    ELSE IF sv.pinecone_available /\ sv.index # None
    THEN after_remote(sv, inp,
             _retrieve_from_pinecone(sv.documents, sv.remote, inp.query, inp.country,
                 inp.visa_type, inp.top_k, sv.use_local_fallback,
                 inp.provider_fails_remote, inp.query_raises))
    ELSE cache_or_none(sv, inp, FALSE)

\* ------------------------------------------------------------------ state
VARIABLES
    pinecone_api_key,     \* RAGService.pinecone_api_key is set (os.getenv at construction)
    use_local_fallback,   \* EmbeddingsService.use_local_fallback (no OPENAI_API_KEY)
    cache_file,           \* the backing file .cache/rag_cache.json
    cache,                \* the LocalCache of the CacheFallbackService singleton
    services_loaded,      \* the module-level singletons have been constructed
    kb_data,              \* KnowledgeBaseIngestor.kb_data
    kb_documents,         \* KnowledgeBaseIngestor.documents
    initialized,          \* RAGService.initialized
    pinecone_available,   \* RAGService.pinecone_available
    cache_populated,      \* RAGService.cache_populated
    index,                \* RAGService.index
    documents,            \* RAGService.documents, the chunks
    remote,               \* the vectors the remote index holds
    pc,                   \* where the running initialize() stands
    embeddings,           \* the local `embeddings` of _index_documents
    upsert_i,             \* the loop variable i of _upsert_to_pinecone
    lifecycle,            \* the state of the orchestrator's state machine
    run,                  \* what the most recent initialize() met and returned
    trace,                \* the steps of the most recent initialize(), in order
    init_calls,           \* initialize() calls so far
    last                  \* the retrieve_context call that just returned, if any

env == <<pinecone_api_key, use_local_fallback>>
store == <<cache_file, cache, services_loaded>>
ingestor == <<kb_data, kb_documents>>
flags == <<initialized, pinecone_available, cache_populated, index>>
ghost == <<lifecycle, run, trace, init_calls>>
vars == <<env, store, ingestor, flags, documents, remote, pc, embeddings, upsert_i,
          ghost, last>>

NoCall == [called |-> FALSE]
NoRun == [returned |-> "never", kb_loaded |-> FALSE, connect |-> "not_attempted",
          embed_fail_at |-> 0, upsert_failed |-> FALSE, upserted |-> FALSE,
          save |-> "not_attempted", chunks |-> <<>>]

\* A backing file left by an earlier process: one record under the id every
\* first chunk gets, and one written with vectors of another dimension
OldStoreFile ==
    json_dump(add_document(EmptyCache, <<"doc", 1>>, <<"b">>, _local_embed(<<"b">>),
                           [type |-> "guide", topic |-> "Old", source |-> "internal",
                            chunk_index |-> 1, tokens |-> 1]))
OtherDimFile ==
    json_dump(add_document(EmptyCache, <<"old", 1>>, <<"a">>, <<Scale>>,
                           [type |-> "guide", topic |-> "Old", source |-> "internal",
                            chunk_index |-> 1, tokens |-> 1]))
CacheFiles == {MissingFile, CorruptFile, OldStoreFile, OtherDimFile}

Init ==
    /\ pinecone_api_key \in BOOLEAN
    /\ use_local_fallback \in BOOLEAN
    /\ cache_file \in CacheFiles
    /\ cache = EmptyCache
    /\ services_loaded = FALSE
    /\ kb_data = EmptyDict
    /\ kb_documents = <<>>
    /\ initialized = FALSE
    /\ pinecone_available = FALSE
    /\ cache_populated = FALSE
    /\ index = None
    /\ documents = <<>>
    /\ remote = <<>>
    /\ pc = "idle"
    /\ embeddings = <<>>
    /\ upsert_i = 0
    /\ lifecycle = "Uninitialized"
    /\ run = NoRun
    /\ trace = <<>>
    /\ init_calls = 0
    /\ last = NoCall

\* ------------------------------------------------------------- initialize
\* RAGService.initialize up to the knowledge-base check (rag.py:46-65), with
\* _load_and_prepare_documents.  kb_file: what the knowledge-base file holds.
initialize ==
    /\ last = NoCall
    /\ pc = "idle"
    /\ init_calls < MaxInits
    /\ \E kb_file \in KBFiles :
        LET loaded == load_knowledge_base(kb_file)
            kb_docs == IF kb_documents = <<>> THEN prepare_all_documents(kb_file)
                       ELSE kb_documents
        IN  /\ init_calls' = init_calls + 1
            \* get_cache_fallback_service: the first call constructs the LocalCache
            /\ services_loaded' = TRUE
            /\ cache' = IF services_loaded THEN cache ELSE _load_cache(cache_file)
            /\ IF loaded
               THEN /\ kb_data' = kb_file
                    /\ kb_documents' = kb_docs
                    /\ documents' = ChunkAll(get_all_documents(kb_docs))
                    /\ pc' = "connect"
                    /\ lifecycle' = "Initializing"
                    /\ run' = [NoRun EXCEPT !.returned = "running", !.kb_loaded = TRUE,
                                            !.chunks = documents']
                    /\ trace' = <<"chunk">>
               ELSE \* return False (rag.py:63-65)
                    /\ UNCHANGED <<kb_data, kb_documents, documents>>
                    /\ pc' = "idle"
                    /\ lifecycle' = "Failed"
                    /\ run' = [NoRun EXCEPT !.returned = "false"]
                    /\ trace' = <<>>
    /\ UNCHANGED last
    /\ UNCHANGED <<env, cache_file, flags, remote, embeddings, upsert_i>>

\* _initialize_pinecone whose failure paths leave index and pinecone_available
\* as an earlier initialize() set them
_initialize_pinecone_keeps_index ==
    /\ last = NoCall
    /\ pc = "connect"
    /\ \E outcome \in ConnectOutcomes :
        /\ IF ~pinecone_api_key
           THEN /\ UNCHANGED <<index, pinecone_available>>
                /\ run' = [run EXCEPT !.connect = "no_key"]
           ELSE /\ index' = IF outcome = "connected" THEN IndexHandle ELSE index
                /\ pinecone_available' = (outcome = "connected" \/ pinecone_available)
                /\ run' = [run EXCEPT !.connect = IF outcome = "connected" THEN outcome
                                                 ELSE "unavailable"]
    /\ trace' = Append(trace, "connect")
    /\ pc' = IF documents = <<>> THEN "finish" ELSE "embed"
    /\ UNCHANGED last
    /\ UNCHANGED <<env, store, ingestor, initialized, cache_populated, documents, remote,
                   embeddings, upsert_i, lifecycle, init_calls>>

\* RAGService._initialize_pinecone, then the entry of _index_documents
_initialize_pinecone ==
    /\ last = NoCall
    /\ pc = "connect"
    /\ \E outcome \in ConnectOutcomes :
        /\ IF ~pinecone_api_key
           THEN /\ UNCHANGED <<index, pinecone_available>>
                /\ run' = [run EXCEPT !.connect = "no_key"]
           ELSE /\ index' = IF outcome = "connected" THEN IndexHandle ELSE None
                /\ pinecone_available' = (outcome = "connected")
                /\ run' = [run EXCEPT !.connect = IF outcome = "connected" THEN outcome
                                                 ELSE "unavailable"]
    /\ trace' = Append(trace, "connect")
    /\ pc' = IF documents = <<>> THEN "finish" ELSE "embed"
    /\ UNCHANGED last
    /\ UNCHANGED <<env, store, ingestor, initialized, cache_populated, documents, remote,
                   embeddings, upsert_i, lifecycle, init_calls>>

\* embed_chunks going on to the local store without the upsert
embed_chunks_skips_upsert ==
    /\ last = NoCall
    /\ pc = "embed"
    /\ \E fail_at \in (IF use_local_fallback THEN {0}
                       ELSE 0..NumBatches(Len(documents), embed_batch_size)) :
        /\ embeddings' = embed_documents([i \in 1..Len(documents) |-> documents[i].text],
                                         use_local_fallback, fail_at)
        /\ run' = [run EXCEPT !.embed_fail_at = fail_at]
    /\ trace' = Append(trace, "embed")
    /\ upsert_i' = 0
    /\ pc' = "populate"
    /\ UNCHANGED last
    /\ UNCHANGED <<env, store, ingestor, flags, documents, remote, lifecycle, init_calls>>

\* _index_documents: embed every chunk (rag.py:168-172)
embed_chunks ==
    /\ last = NoCall
    /\ pc = "embed"
    \* the provider is called, and so can fail, only without the local fallback
    /\ \E fail_at \in (IF use_local_fallback THEN {0}
                       ELSE 0..NumBatches(Len(documents), embed_batch_size)) :
        /\ embeddings' = embed_documents([i \in 1..Len(documents) |-> documents[i].text],
                                         use_local_fallback, fail_at)
        /\ run' = [run EXCEPT !.embed_fail_at = fail_at]
    /\ trace' = Append(trace, "embed")
    /\ upsert_i' = 0
    /\ pc' = IF index # None THEN "upsert" ELSE "populate"
    /\ UNCHANGED last
    /\ UNCHANGED <<env, store, ingestor, flags, documents, remote, lifecycle, init_calls>>

\* zip(self.documents, embeddings) as the vectors to upsert
VectorsToUpsert(docs, embs) ==
    [i \in 1..(IF Len(docs) < Len(embs) THEN Len(docs) ELSE Len(embs)) |->
        [id |-> docs[i].id, values |-> embs[i], metadata |-> docs[i].metadata]]

\* _upsert_to_pinecone without its except clause: the exception of a failed
\* upsert ends _index_documents, which logs it, before the cache is populated
_upsert_to_pinecone_uncaught ==
    /\ last = NoCall
    /\ pc = "upsert"
    /\ LET vectors == VectorsToUpsert(documents, embeddings)
           batch == SubSeq(vectors, upsert_i + 1,
                           IF upsert_i + upsert_batch_size < Len(vectors)
                           THEN upsert_i + upsert_batch_size ELSE Len(vectors))
       IN  \E upsert_raises \in BOOLEAN :
            IF upsert_raises
            THEN /\ run' = [run EXCEPT !.upsert_failed = TRUE]
                 /\ pc' = "finish"
                 /\ UNCHANGED <<remote, upsert_i, pinecone_available>>
            ELSE /\ remote' = pinecone_upsert(remote, batch)
                 /\ upsert_i' = upsert_i + upsert_batch_size
                 /\ run' = [run EXCEPT !.upserted = TRUE]
                 /\ pc' = IF upsert_i' < Len(vectors) THEN "upsert" ELSE "populate"
                 /\ UNCHANGED pinecone_available
    /\ trace' = Append(trace, "upsert")
    /\ UNCHANGED last
    /\ UNCHANGED <<env, store, ingestor, initialized, cache_populated, index, documents,
                   embeddings, lifecycle, init_calls>>

\* _upsert_to_pinecone re-raising after its except clause: the exception
\* reaches initialize(), which sets initialized = False and returns False
_upsert_to_pinecone_aborts ==
    /\ last = NoCall
    /\ pc = "upsert"
    /\ LET vectors == VectorsToUpsert(documents, embeddings)
           batch == SubSeq(vectors, upsert_i + 1,
                           IF upsert_i + upsert_batch_size < Len(vectors)
                           THEN upsert_i + upsert_batch_size ELSE Len(vectors))
       IN  \E upsert_raises \in BOOLEAN :
            IF upsert_raises
            THEN /\ pinecone_available' = FALSE
                 /\ initialized' = FALSE
                 /\ lifecycle' = "Failed"
                 /\ run' = [run EXCEPT !.upsert_failed = TRUE, !.returned = "false"]
                 /\ pc' = "idle"
                 /\ UNCHANGED <<remote, upsert_i>>
            ELSE /\ remote' = pinecone_upsert(remote, batch)
                 /\ upsert_i' = upsert_i + upsert_batch_size
                 /\ run' = [run EXCEPT !.upserted = TRUE]
                 /\ pc' = IF upsert_i' < Len(vectors) THEN "upsert" ELSE "populate"
                 /\ UNCHANGED <<pinecone_available, initialized, lifecycle>>
    /\ trace' = Append(trace, "upsert")
    /\ UNCHANGED last
    /\ UNCHANGED <<env, store, ingestor, cache_populated, index, documents,
                   embeddings, init_calls>>

\* RAGService._upsert_to_pinecone: one pass of the batch loop
_upsert_to_pinecone ==
    /\ last = NoCall
    /\ pc = "upsert"
    /\ LET vectors == VectorsToUpsert(documents, embeddings)
           batch == SubSeq(vectors, upsert_i + 1,
                           IF upsert_i + upsert_batch_size < Len(vectors)
                           THEN upsert_i + upsert_batch_size ELSE Len(vectors))
       IN  \E upsert_raises \in BOOLEAN :
            IF upsert_raises
            THEN /\ pinecone_available' = FALSE
                 /\ run' = [run EXCEPT !.upsert_failed = TRUE]
                 /\ pc' = "populate"
                 /\ UNCHANGED <<remote, upsert_i>>
            ELSE /\ remote' = pinecone_upsert(remote, batch)
                 /\ upsert_i' = upsert_i + upsert_batch_size
                 /\ run' = [run EXCEPT !.upserted = TRUE]
                 /\ pc' = IF upsert_i' < Len(vectors) THEN "upsert" ELSE "populate"
                 /\ UNCHANGED pinecone_available
    /\ trace' = Append(trace, "upsert")
    /\ UNCHANGED last
    /\ UNCHANGED <<env, store, ingestor, initialized, cache_populated, index, documents,
                   embeddings, lifecycle, init_calls>>

\* zip(self.documents, embeddings) as the records for the cache
CacheDocs(docs, embs) ==
    [i \in 1..(IF Len(docs) < Len(embs) THEN Len(docs) ELSE Len(embs)) |->
        [id |-> docs[i].id, text |-> docs[i].text, embedding |-> embs[i],
         metadata |-> docs[i].metadata]]

\* RAGService._populate_cache_fallback with LocalCache.add_batch
_populate_cache_fallback ==
    /\ last = NoCall
    /\ pc = "populate"
    /\ \E outcome \in {"ok", "open_fails", "dump_fails"} :
        /\ cache' = AddAll(cache, CacheDocs(documents, embeddings))
        /\ cache_file' = _save_cache(cache', cache_file, outcome)
        /\ run' = [run EXCEPT !.save = outcome]
    /\ cache_populated' = TRUE
    /\ trace' = Append(trace, "populate")
    /\ pc' = "finish"
    \* _index_documents returns: its locals are gone
    /\ embeddings' = <<>>
    /\ upsert_i' = 0
    /\ UNCHANGED last
    /\ UNCHANGED <<env, services_loaded, ingestor, initialized, pinecone_available, index,
                   documents, remote, lifecycle, init_calls>>

\* RAGService.initialize: self.initialized = True; return True (rag.py:73-75)
initialize_return ==
    /\ last = NoCall
    /\ pc = "finish"
    /\ initialized' = TRUE
    /\ lifecycle' = "Ready"
    /\ run' = [run EXCEPT !.returned = "true"]
    /\ trace' = Append(trace, "ready")
    /\ pc' = "idle"
    /\ UNCHANGED last
    /\ UNCHANGED <<env, store, ingestor, pinecone_available, cache_populated, index,
                   documents, remote, embeddings, upsert_i, init_calls>>

\* ------------------------------------------------------- retrieve_context
Queries == {<<"A", " ", "b">>, <<"b", "b">>}
Countries == {NoStr, "USA"}
VisaTypes == {NoStr, "tourist"}

ServiceView ==
    [initialized |-> initialized, pinecone_available |-> pinecone_available,
     index |-> index, cache_populated |-> cache_populated, documents |-> documents,
     remote |-> remote, cache |-> cache, use_local_fallback |-> use_local_fallback]

\* The outcomes an outbound call can have: a call that is not made has none
\* (FALSE); the embedding provider is called only without the local fallback.
RemoteTried == initialized /\ pinecone_available /\ index # None
QueryOutcomes == IF RemoteTried THEN BOOLEAN ELSE {FALSE}
ProviderOutcomesRemote == IF RemoteTried /\ ~use_local_fallback THEN BOOLEAN ELSE {FALSE}
ProviderOutcomesCache ==
    IF initialized /\ cache_populated /\ ~use_local_fallback THEN BOOLEAN ELSE {FALSE}

\* LocalCache.get_stats
get_stats(c, file) ==
    [total_documents |-> Len(c.documents), total_embeddings |-> Len(c.embeddings),
     cache_exists |-> file # MissingFile]

\* RAGService.get_status; cache_stats is {} before the services are loaded
get_status ==
    [initialized |-> initialized, pinecone_available |-> pinecone_available,
     cache_populated |-> cache_populated, documents_indexed |-> Len(documents),
     using_openai_embeddings |-> services_loaded /\ ~use_local_fallback,
     cache_stats |-> IF services_loaded THEN get_stats(cache, cache_file) ELSE EmptyDict]

\* retrieve with a circuit breaker: a failed remote query turns the remote
\* index off for the calls that follow
retrieve_trips_breaker ==
    /\ last = NoCall
    /\ pc = "idle"
    /\ \E query \in Queries, country \in Countries, visa_type \in VisaTypes,
          top_k \in 1..MaxTopK, pf_remote \in ProviderOutcomesRemote,
          pf_cache \in ProviderOutcomesCache, query_raises \in QueryOutcomes :
        LET inp == [query |-> query, country |-> country, visa_type |-> visa_type,
                    top_k |-> top_k, provider_fails_remote |-> pf_remote,
                    provider_fails_cache |-> pf_cache, query_raises |-> query_raises]
            out == retrieve_context(ServiceView, inp)
        IN  /\ last' = [called |-> TRUE, inp |-> inp, result |-> out.result,
                        remote_queried |-> out.remote_queried,
                        local_searched |-> out.local_searched]
            /\ pinecone_available' = (pinecone_available /\ ~query_raises)
    /\ UNCHANGED <<env, store, ingestor, initialized, cache_populated, index, documents,
                   remote, pc, embeddings, upsert_i, ghost>>

\* A call of RAGService.retrieve_context.  initialize() never yields to the
\* event loop (each of its awaits is on a coroutine without a suspension point;
\* the provider and index clients are synchronous), so a call runs only between
\* initialize() calls.  last holds the call that has just returned until its
\* caller takes the result, before any other step.
retrieve ==
    /\ last = NoCall
    /\ pc = "idle"
    /\ \E query \in Queries, country \in Countries, visa_type \in VisaTypes,
          top_k \in 1..MaxTopK, pf_remote \in ProviderOutcomesRemote,
          pf_cache \in ProviderOutcomesCache, query_raises \in QueryOutcomes :
        LET inp == [query |-> query, country |-> country, visa_type |-> visa_type,
                    top_k |-> top_k, provider_fails_remote |-> pf_remote,
                    provider_fails_cache |-> pf_cache, query_raises |-> query_raises]
            out == retrieve_context(ServiceView, inp)
        IN  last' = [called |-> TRUE, inp |-> inp, result |-> out.result,
                     remote_queried |-> out.remote_queried,
                     local_searched |-> out.local_searched]
    /\ UNCHANGED <<env, store, ingestor, flags, documents, remote, pc, embeddings,
                   upsert_i, ghost>>

\* The caller of retrieve_context takes the returned dict
take_result ==
    /\ last # NoCall
    /\ last' = NoCall
    /\ UNCHANGED <<env, store, ingestor, flags, documents, remote, pc, embeddings,
                   upsert_i, ghost>>

Next ==
    \/ initialize
    \/ _initialize_pinecone
    \/ embed_chunks
    \/ _upsert_to_pinecone
    \/ _populate_cache_fallback
    \/ initialize_return
    \/ retrieve
    \/ take_result

Spec == Init /\ [][Next]_vars

\* ------------------------------------------------- the LocalCache alone
\* A LocalCache used directly: constructed on the backing file, filled by
\* add_batch, searched, cleared, and constructed again by a later process.
MaxRecords == 3        \* documents a store holds at most
MaxBatch == 2          \* records of one add_batch call

\* Records a caller adds: two of them share an id
StoreRecords ==
    {[id |-> <<"doc", 1>>, text |-> <<"a">>, embedding |-> <<Scale, 0>>,
      metadata |-> [country |-> "USA", type |-> "visa_info"]],
     [id |-> <<"doc", 2>>, text |-> <<"b">>, embedding |-> <<0, Scale>>,
      metadata |-> [country |-> "USA", visa_type |-> "tourist", type |-> "visa_info"]],
     [id |-> <<"doc", 1>>, text |-> <<"a", " ", "b">>, embedding |-> <<600, 800>>,
      metadata |-> [topic |-> "Old", type |-> "guide"]]}
StoreBatches == UNION {[1..n -> StoreRecords] : n \in 1..MaxBatch}
QueryVectors == {<<Scale, 0>>, <<0, Scale>>, <<0, 0>>}
StoreFilters == {None, EmptyDict, [country |-> "USA"],
                 [country |-> "USA", visa_type |-> "tourist"], [region |-> "EU"]}

InitStore ==
    /\ pinecone_api_key = FALSE
    /\ use_local_fallback = TRUE
    /\ cache_file \in {MissingFile, CorruptFile}
    /\ cache = EmptyCache
    /\ services_loaded = FALSE
    /\ kb_data = EmptyDict
    /\ kb_documents = <<>>
    /\ initialized = FALSE
    /\ pinecone_available = FALSE
    /\ cache_populated = FALSE
    /\ index = None
    /\ documents = <<>>
    /\ remote = <<>>
    /\ pc = "idle"
    /\ embeddings = <<>>
    /\ upsert_i = 0
    /\ lifecycle = "Uninitialized"
    /\ run = NoRun
    /\ trace = <<>>
    /\ init_calls = 0
    /\ last = NoCall

\* LocalCache(): the constructor loads the backing file
store_open ==
    /\ ~services_loaded
    /\ services_loaded' = TRUE
    /\ cache' = _load_cache(cache_file)
    /\ UNCHANGED <<env, cache_file, ingestor, flags, documents, remote, pc, embeddings,
                   upsert_i, ghost, last>>

\* LocalCache.add_batch(batch), with the outcome of the write of _save_cache
store_add_batch ==
    /\ services_loaded
    /\ last = NoCall
    /\ \E batch \in StoreBatches, outcome \in {"ok", "open_fails", "dump_fails"} :
        /\ Len(cache.documents) + Len(batch) <= MaxRecords
        /\ cache' = AddAll(cache, batch)
        /\ cache_file' = _save_cache(cache', cache_file, outcome)
    /\ UNCHANGED <<env, services_loaded, ingestor, flags, documents, remote, pc,
                   embeddings, upsert_i, ghost, last>>

\* LocalCache.search(query_embedding, top_k, metadata_filter)
store_search ==
    /\ services_loaded
    /\ last = NoCall
    /\ \E query_embedding \in QueryVectors, top_k \in 0..MaxTopK,
          metadata_filter \in StoreFilters :
        last' = [called |-> TRUE,
                 inp |-> [query_embedding |-> query_embedding, top_k |-> top_k,
                          metadata_filter |-> metadata_filter],
                 result |-> search(cache, query_embedding, top_k, metadata_filter)]
    /\ UNCHANGED <<env, store, ingestor, flags, documents, remote, pc, embeddings,
                   upsert_i, ghost>>

\* clear() emptying the object and leaving the backing file in place
store_clear_keeps_file ==
    /\ services_loaded
    /\ last = NoCall
    /\ cache' = EmptyCache
    /\ cache_file' = cache_file
    /\ last' = [called |-> TRUE,
                inp |-> [cleared |-> Len(cache.documents),
                         file_existed |-> cache_file # MissingFile],
                result |-> None]
    /\ UNCHANGED <<env, services_loaded, ingestor, flags, documents, remote, pc,
                   embeddings, upsert_i, ghost>>

\* LocalCache.clear; os.remove runs only if the file exists.  The call that
\* just returned is kept in `last` with what the store held before it.
store_clear ==
    /\ services_loaded
    /\ last = NoCall
    /\ cache' = EmptyCache
    /\ cache_file' = MissingFile
    /\ last' = [called |-> TRUE,
                inp |-> [cleared |-> Len(cache.documents),
                         file_existed |-> cache_file # MissingFile],
                result |-> None]
    /\ UNCHANGED <<env, services_loaded, ingestor, flags, documents, remote, pc,
                   embeddings, upsert_i, ghost>>

\* The process ends (or crashes): the object is gone, the file stays
store_exit ==
    /\ services_loaded
    /\ last = NoCall
    /\ services_loaded' = FALSE
    /\ cache' = EmptyCache
    /\ UNCHANGED <<env, cache_file, ingestor, flags, documents, remote, pc, embeddings,
                   upsert_i, ghost, last>>

NextStore ==
    \/ store_open
    \/ store_add_batch
    \/ store_search
    \/ take_result
    \/ store_clear
    \/ store_exit

SpecStore == InitStore /\ [][NextStore]_vars

\* ------------------------------------------- retrieve_context on its own
\* retrieve_context as a function of the fields it reads.  The service object
\* holds any values of its flags that keep pinecone_available => index set and
\* index set => key configured; the chunk list and the stores are those an
\* ingestion of KBUsa builds.  initialize() itself never leaves initialized
\* set with cache_populated clear, since get_all_documents always yields the
\* supplementary documents; that combination is here for the branch of
\* retrieve_context that tests it (rag.py:272, 286).
IngestedChunks == ChunkAll(get_all_documents(prepare_all_documents(KBUsa)))
IngestedVectors(local) ==
    embed_documents([i \in 1..Len(IngestedChunks) |-> IngestedChunks[i].text], local, 0)

InitRetrieve ==
    /\ pinecone_api_key \in BOOLEAN
    /\ use_local_fallback \in BOOLEAN
    /\ cache_file = OldStoreFile
    /\ services_loaded = TRUE
    /\ kb_data = KBUsa
    /\ kb_documents = prepare_all_documents(KBUsa)
    /\ initialized \in BOOLEAN
    /\ index \in {None, IndexHandle}
    /\ pinecone_available \in BOOLEAN
    /\ pinecone_available => index # None
    /\ (index # None) => pinecone_api_key
    /\ cache_populated \in BOOLEAN
    /\ cache = IF cache_populated
               THEN AddAll(_load_cache(OldStoreFile),
                           CacheDocs(IngestedChunks, IngestedVectors(use_local_fallback)))
               ELSE _load_cache(OldStoreFile)
    /\ documents = IngestedChunks
    /\ remote = IF index # None
                THEN pinecone_upsert(<<>>, VectorsToUpsert(IngestedChunks,
                                               IngestedVectors(use_local_fallback)))
                ELSE <<>>
    /\ pc = "idle"
    /\ embeddings = <<>>
    /\ upsert_i = 0
    /\ lifecycle = IF initialized THEN "Ready" ELSE "Uninitialized"
    /\ run = NoRun
    /\ trace = <<>>
    /\ init_calls = 0
    /\ last = NoCall

NextRetrieve ==
    \/ retrieve
    \/ take_result

SpecRetrieve == InitRetrieve /\ [][NextRetrieve]_vars

\* ------------------ the embedder, the chunker and the validator, call by call
MaxEmbedDocs == 11     \* texts of one embed_documents call: one more than a request batch

\* Texts given to embed_text: they differ in case, in surrounding whitespace,
\* or in content
EmbedTexts == {<<"a">>, <<"A">>, <<" ", "a">>, <<"a", "\n">>, <<"b">>, <<"a", " ", "b">>,
               <<"A", " ", "B">>, <<"a", "\n", "b">>, <<>>}
\* The documents of one embed_documents call, each one of two texts
DocLists == UNION {[1..n -> {<<"a">>, <<"b">>}] : n \in 0..MaxEmbedDocs}

MaxWords == 5          \* words of a document given to the chunker
MaxChunkSize == 6      \* largest chunk_size a chunker is built with, in tokens
MaxOverlap == 4        \* largest overlap a chunker is built with, in tokens

\* Documents given to the chunker: words (some ending a sentence) separated
\* by single spaces or by blank lines
ChunkTexts ==
    UNION {{join(sep, ws) : ws \in [1..n -> {<<"a">>, <<"b", ".">>}],
                            sep \in {<<" ">>, <<"\n", "\n">>}}
           : n \in 1..MaxWords}

\* --- the validator
MaxRetrieved == 2      \* documents a retrieval of the validator returns

\* RAGValidator.TEST_QUERIES: the model's suite has one case of five keywords
\* and one of four, as the cases of the source have
TEST_QUERIES ==
    <<[query |-> <<"a">>,
       expected_keywords |-> <<<<"a">>, <<"B">>, <<"a", "b">>, <<"b", "a">>, <<".">>>>],
      [query |-> <<"b">>,
       expected_keywords |-> <<<<"A">>, <<"b">>, <<"a", "a">>, <<"b", "b">>>>]>>

\* What rag_service.retrieve_context does for one case of the suite: it
\* raises, or returns a context of up to MaxRetrieved documents
ContextOutcomes ==
    {Raised} \cup
    {Ok([documents |-> [i \in 1..Len(cs) |-> [content |-> cs[i]]], sources |-> <<>>,
         source |-> "cache"])
        : cs \in UNION {[1..n -> {<<"A">>, <<"a", "b">>, <<"b", "a", ".">>}]
                          : n \in 0..MaxRetrieved}}

\* rag_validator.py:102-107: the expected keywords whose lower-cased form
\* occurs in the lower-cased contents joined by spaces
matched_keywords(expected_keywords, docs) ==
    LET all_content == lower(join(<<" ">>, [i \in 1..Len(docs) |-> docs[i].content]))
        Occurs(k) == \E i \in 0..(Len(all_content) - Len(k)) :
                         SubSeq(all_content, i + 1, i + Len(k)) = k
    IN  SelectSeq(expected_keywords, LAMBDA keyword : Occurs(lower(keyword)))

\* validate_single_query passing a case only above 60% of its keywords
validate_single_query_strict(test_case, outcome) ==
    IF IsRaised(outcome)
    THEN [query |-> test_case.query, error |-> "str(e)", passed |-> FALSE]
    ELSE [query |-> test_case.query,
          retrieved_documents |-> Len(outcome.value.documents),
          sources |-> outcome.value.sources,
          expected_keywords |-> test_case.expected_keywords,
          matched_keywords |-> matched_keywords(test_case.expected_keywords,
                                                outcome.value.documents),
          match_ratio |->
              IF test_case.expected_keywords # <<>>
              THEN [num |-> Len(matched_keywords(test_case.expected_keywords,
                                                 outcome.value.documents)),
                    den |-> Len(test_case.expected_keywords)]
              ELSE [num |-> 0, den |-> 1],
          passed |->
              /\ test_case.expected_keywords # <<>>
              /\ 10 * Len(matched_keywords(test_case.expected_keywords,
                                           outcome.value.documents))
                     > 6 * Len(test_case.expected_keywords),
          retrieval_source |-> outcome.value.source,
          documents |-> outcome.value.documents]

\* RAGValidator.validate_single_query; outcome is what retrieve_context did.
\* match_ratio is the exact fraction num/den, and `match_ratio >= 0.6` is
\* 10 * num >= 6 * den.
validate_single_query(test_case, outcome) ==
    IF IsRaised(outcome)
    THEN [query |-> test_case.query, error |-> "str(e)", passed |-> FALSE]
    ELSE [query |-> test_case.query,
          retrieved_documents |-> Len(outcome.value.documents),
          sources |-> outcome.value.sources,
          expected_keywords |-> test_case.expected_keywords,
          matched_keywords |-> matched_keywords(test_case.expected_keywords,
                                                outcome.value.documents),
          match_ratio |->
              IF test_case.expected_keywords # <<>>
              THEN [num |-> Len(matched_keywords(test_case.expected_keywords,
                                                 outcome.value.documents)),
                    den |-> Len(test_case.expected_keywords)]
              ELSE [num |-> 0, den |-> 1],
          passed |->
              /\ test_case.expected_keywords # <<>>
              /\ 10 * Len(matched_keywords(test_case.expected_keywords,
                                           outcome.value.documents))
                     >= 6 * Len(test_case.expected_keywords),
          retrieval_source |-> outcome.value.source,
          documents |-> outcome.value.documents]

\* RAGValidator.run_validation_suite; outcomes[i] is what retrieve_context did
\* for case i.  The rates are exact fractions num/den.
run_validation_suite(outcomes) ==
    LET results == [i \in 1..Len(TEST_QUERIES) |->
                       validate_single_query(TEST_QUERIES[i], outcomes[i])]
        passed_count == Cardinality({i \in 1..Len(results) : results[i].passed})
        Ratio(r) == IF "match_ratio" \in DOMAIN r THEN r.match_ratio ELSE [num |-> 0, den |-> 1]
        RECURSIVE Sum(_)
        Sum(k) == IF k = 0 THEN [num |-> 0, den |-> 1]
                  ELSE [num |-> Sum(k - 1).num * Ratio(results[k]).den
                                  + Ratio(results[k]).num * Sum(k - 1).den,
                        den |-> Sum(k - 1).den * Ratio(results[k]).den]
        RECURSIVE Retrieved(_)
        Retrieved(k) == IF k = 0 THEN 0
                        ELSE Retrieved(k - 1)
                             + (IF "retrieved_documents" \in DOMAIN results[k]
                                THEN results[k].retrieved_documents ELSE 0)
    IN  [total_tests |-> Len(TEST_QUERIES),
         passed |-> passed_count,
         failed |-> Len(TEST_QUERIES) - passed_count,
         pass_rate |-> IF TEST_QUERIES # <<>>
                       THEN [num |-> passed_count, den |-> Len(TEST_QUERIES)]
                       ELSE [num |-> 0, den |-> 1],
         average_match_ratio |->
             IF results # <<>>
             THEN [num |-> Sum(Len(results)).num, den |-> Sum(Len(results)).den * Len(results)]
             ELSE [num |-> 0, den |-> 1],
         total_documents_retrieved |-> Retrieved(Len(results)),
         results |-> results]

InitFunctions ==
    /\ pinecone_api_key = FALSE
    /\ use_local_fallback \in BOOLEAN
    /\ cache_file = MissingFile
    /\ cache = EmptyCache
    /\ services_loaded = TRUE
    /\ kb_data = EmptyDict
    /\ kb_documents = <<>>
    /\ initialized = FALSE
    /\ pinecone_available = FALSE
    /\ cache_populated = FALSE
    /\ index = None
    /\ documents = <<>>
    /\ remote = <<>>
    /\ pc = "idle"
    /\ embeddings = <<>>
    /\ upsert_i = 0
    /\ lifecycle = "Uninitialized"
    /\ run = NoRun
    /\ trace = <<>>
    /\ init_calls = 0
    /\ last = NoCall

\* EmbeddingsService.embed_text(text); provider_fails: the provider call raises
call_embed_text ==
    /\ last = NoCall
    /\ \E text \in EmbedTexts, provider_fails \in BOOLEAN :
        last' = [called |-> TRUE,
                 inp |-> [text |-> text, provider_fails |-> provider_fails],
                 result |-> embed_text(text, use_local_fallback, provider_fails)]
    /\ UNCHANGED <<env, store, ingestor, flags, documents, remote, pc, embeddings,
                   upsert_i, ghost>>

\* EmbeddingsService.embed_documents(texts); fail_at: the request batch whose
\* provider call raises, 0 when none does
call_embed_documents ==
    /\ last = NoCall
    /\ \E texts \in DocLists, fail_at \in 0..NumBatches(MaxEmbedDocs, embed_batch_size) :
        last' = [called |-> TRUE,
                 inp |-> [texts |-> texts, fail_at |-> fail_at],
                 result |-> embed_documents(texts, use_local_fallback, fail_at)]
    /\ UNCHANGED <<env, store, ingestor, flags, documents, remote, pc, embeddings,
                   upsert_i, ghost>>

\* ChunkingStrategy.estimate_tokens(text)
call_estimate_tokens ==
    /\ last = NoCall
    /\ \E text \in ChunkTexts :
        last' = [called |-> TRUE, inp |-> [estimated |-> text],
                 result |-> estimate_tokens(text)]
    /\ UNCHANGED <<env, store, ingestor, flags, documents, remote, pc, embeddings,
                   upsert_i, ghost>>

\* DocumentChunker(chunk_size, overlap).chunk_document(text, metadata, strategy)
call_chunk_document ==
    /\ last = NoCall
    /\ \E strategy \in {"paragraphs", "sentences", "fixed"}, text \in ChunkTexts,
          size \in 1..MaxChunkSize, ovl \in 0..MaxOverlap :
        last' = [called |-> TRUE,
                 inp |-> [strategy |-> strategy, document |-> text,
                          chunk_size |-> size, overlap |-> ovl],
                 result |-> chunk_with_strategy(strategy, text, [type |-> "guide"],
                                                size, ovl)]
    /\ UNCHANGED <<env, store, ingestor, flags, documents, remote, pc, embeddings,
                   upsert_i, ghost>>

\* RAGValidator.run_validation_suite()
call_run_validation_suite ==
    /\ last = NoCall
    /\ \E outcomes \in [1..Len(TEST_QUERIES) -> ContextOutcomes] :
        last' = [called |-> TRUE, inp |-> [suite_outcomes |-> outcomes],
                 result |-> run_validation_suite(outcomes)]
    /\ UNCHANGED <<env, store, ingestor, flags, documents, remote, pc, embeddings,
                   upsert_i, ghost>>

NextFunctions ==
    \/ call_embed_text
    \/ call_embed_documents
    \/ call_estimate_tokens
    \/ call_chunk_document
    \/ call_run_validation_suite
    \/ take_result

SpecFunctions == InitFunctions /\ [][NextFunctions]_vars

\* ------------------------ one retrieve_context call, outbound call by outbound call
\* A call of retrieve_context with each outbound call it makes as a step of its
\* own: client.embeddings.create of embed_text (embeddings.py:44-47) and
\* self.index.query (rag.py:314-319).  Neither is given a timeout, so the call
\* goes on when its peer answers or the client raises, and not before.  While
\* the call is in flight pc names the outbound call it waits in and last holds
\* the arguments, the outcomes so far, and whether the peer of the pending call
\* will ever answer; once it has returned pc is "idle" and last holds the
\* result.  The service is as InitRetrieve leaves it.
retrieve_begin ==
    /\ pc = "idle"
    /\ \E query \in Queries, country \in Countries, visa_type \in VisaTypes,
          top_k \in 1..MaxTopK, answers \in BOOLEAN :
        LET inp == [query |-> query, country |-> country, visa_type |-> visa_type,
                    top_k |-> top_k, provider_fails_remote |-> FALSE,
                    provider_fails_cache |-> FALSE, query_raises |-> FALSE]
            out == retrieve_context(ServiceView, inp)
        IN  IF out.remote_queried
            THEN /\ pc' = IF use_local_fallback THEN "index_query" ELSE "embed_for_remote"
                 /\ last' = [called |-> FALSE, inp |-> inp, answers |-> answers]
            ELSE IF out.local_searched /\ ~use_local_fallback
            THEN /\ pc' = "embed_for_cache"
                 /\ last' = [called |-> FALSE, inp |-> inp, answers |-> answers]
            ELSE /\ pc' = "idle"
                 /\ last' = [called |-> TRUE, inp |-> inp, result |-> out.result,
                             remote_queried |-> out.remote_queried,
                             local_searched |-> out.local_searched]
    /\ UNCHANGED <<env, store, ingestor, flags, documents, remote, embeddings,
                   upsert_i, ghost>>

\* client.embeddings.create returns to embed_text: with the response, or by
\* raising, which the except clause turns into the local embedding
embeddings_create_returns ==
    /\ pc \in {"embed_for_remote", "embed_for_cache"}
    /\ last.answers
    /\ \E fails \in BOOLEAN, answers \in BOOLEAN :
        IF pc = "embed_for_remote"
        THEN /\ pc' = "index_query"
             /\ last' = [called |-> FALSE,
                         inp |-> [last.inp EXCEPT !.provider_fails_remote = fails],
                         answers |-> answers]
        ELSE LET inp == [last.inp EXCEPT !.provider_fails_cache = fails]
                 out == retrieve_context(ServiceView, inp)
             IN  /\ pc' = "idle"
                 /\ last' = [called |-> TRUE, inp |-> inp, result |-> out.result,
                             remote_queried |-> out.remote_queried,
                             local_searched |-> out.local_searched]
    /\ UNCHANGED <<env, store, ingestor, flags, documents, remote, embeddings,
                   upsert_i, ghost>>

\* self.index.query returns to _retrieve_from_pinecone: with matches, or by
\* raising; without a truthy result retrieve_context goes on to the cache
index_query_returns ==
    /\ pc = "index_query"
    /\ last.answers
    /\ \E raises \in BOOLEAN, answers \in BOOLEAN :
        LET inp == [last.inp EXCEPT !.query_raises = raises]
            out == retrieve_context(ServiceView, inp)
        IN  IF out.local_searched /\ ~use_local_fallback
            THEN /\ pc' = "embed_for_cache"
                 /\ last' = [called |-> FALSE, inp |-> inp, answers |-> answers]
            ELSE /\ pc' = "idle"
                 /\ last' = [called |-> TRUE, inp |-> inp, result |-> out.result,
                             remote_queried |-> out.remote_queried,
                             local_searched |-> out.local_searched]
    /\ UNCHANGED <<env, store, ingestor, flags, documents, remote, embeddings,
                   upsert_i, ghost>>

NextCalls ==
    \/ retrieve_begin
    \/ embeddings_create_returns
    \/ index_query_returns

\* The coroutine goes on as soon as the outbound call it waits in has returned:
\* a call that waits in an outbound call whose peer answers does not wait there
\* for ever.  Nothing makes a call begin, and nothing makes a peer answer.
SpecCalls ==
    /\ InitRetrieve
    /\ [][NextCalls]_vars
    /\ WF_pc(/\ pc # "idle"
             /\ last.answers
             /\ pc' \in {"index_query", "embed_for_cache", "idle"})

\* ------------------------------------------------------------- properties
\* The arguments of the call held in last, as retrieve_context builds them
CallFilter == FilterOrNone(BuildFilter(last.inp.country, last.inp.visa_type))
CallCacheResults ==
    search_cache(cache, last.inp.query, last.inp.top_k, CallFilter, use_local_fallback,
                 last.inp.provider_fails_cache)
CallRemoteResponse ==
    pinecone_query(remote,
                   embed_text(last.inp.query, use_local_fallback,
                              last.inp.provider_fails_remote),
                   last.inp.top_k, CallFilter)

\* The most recent initialize() has returned True / False
ReturnedTrue == pc = "idle" /\ run.returned = "true"
ReturnedFalse == pc = "idle" /\ run.returned = "false"

\* C1: while the orchestrator is not Ready (initialize() never succeeded, or
\* the most recent initialize() failed), retrieve_context returns an empty
\* document list, an empty source list and the tag "none".
C1_NotReadyReturnsNone ==
    (last.called /\ lifecycle # "Ready") =>
        /\ last.result.documents = <<>>
        /\ last.result.sources = <<>>
        /\ last.result.source = "none"

\* C2: in the Ready state, a retrieval that finds the remote index unavailable,
\* or whose remote query fails, searches the local store and returns its
\* results under the tag "cache".
C2_ReadyFallsBackToCache ==
    (/\ last.called
     /\ lifecycle = "Ready"
     /\ (~(pinecone_available /\ index # None) \/ last.inp.query_raises)) =>
        /\ last.result.source = "cache"
        /\ last.local_searched
        /\ last.result.documents = ResultItems(CallCacheResults)
        /\ last.result.count = Len(CallCacheResults)

\* C2's case: Ready, the remote query was made and raised, and the call
\* returned documents of the local store
C2_Witness ==
    /\ last.called
    /\ lifecycle = "Ready"
    /\ last.remote_queried
    /\ last.inp.query_raises
    /\ last.result.source = "cache"
    /\ last.result.documents # <<>>

\* C3: when the most recent initialize() found the remote index unavailable (no
\* key, client missing, connection error or index missing), every retrieval in
\* the Ready state is served by the local store, never queries the remote index
\* and does not raise.
C3_UnavailableRemoteNeverQueried ==
    (/\ last.called
     /\ lifecycle = "Ready"
     /\ run.connect \in {"no_key", "unavailable"}) =>
        /\ ~last.remote_queried
        /\ last.local_searched
        /\ last.result.source = "cache"
        /\ "error" \notin DOMAIN last.result

\* C3's case: the connection failed in an initialize() that followed one which
\* had connected and filled the remote index, and a retrieval was served
C3_Witness ==
    /\ last.called
    /\ lifecycle = "Ready"
    /\ run.connect = "unavailable"
    /\ remote # <<>>
    /\ last.result.source = "cache"

\* C4: whatever the backends do, retrieve_context returns a dict with a
\* documents list and a source tag that is one of "pinecone" (the remote tag),
\* "cache" and "none"; no exception reaches the caller.
C4_AlwaysWellFormed ==
    last.called =>
        /\ {"documents", "query", "sources", "source"} \subseteq DOMAIN last.result
        /\ DOMAIN last.result.documents = 1..Len(last.result.documents)
        /\ last.result.source \in {"pinecone", "cache", "none"}

\* C4's case: the remote query raised and the search of the local store raised
\* as well (a stored vector of another dimension)
C4_Witness ==
    /\ last.called
    /\ last.remote_queried
    /\ last.inp.query_raises
    /\ last.local_searched
    /\ IsRaised(search(cache,
                       embed_text(last.inp.query, use_local_fallback,
                                  last.inp.provider_fails_cache),
                       last.inp.top_k, CallFilter))
    /\ last.result.source = "cache"
    /\ last.result.documents = <<>>

\* The local store holds chunk's record: its id, text and metadata, and under
\* its id a vector that is an embedding of its text
HasRecord(c, chunk) ==
    /\ \E j \in 1..Len(c.documents) :
        /\ c.documents[j].id = chunk.id
        /\ c.documents[j].text = chunk.text
        /\ c.documents[j].metadata = chunk.metadata
    /\ ODictHas(c.embeddings, chunk.id)
    /\ ODictGet(c.embeddings, chunk.id) \in {_local_embed(chunk.text), provider_embed(chunk.text)}
    /\ ODictHas(c.metadata_index, chunk.id)
    /\ ODictGet(c.metadata_index, chunk.id) = chunk.metadata

\* C5: after a successful initialize() the local store holds a record (id,
\* text, embedding, metadata) for every chunk, whether or not the remote index
\* is available.
C5_EveryChunkHasRecord ==
    ReturnedTrue => \A i \in 1..Len(run.chunks) : HasRecord(cache, run.chunks[i])

C7_FailedInitNotReady ==
    ReturnedFalse =>
        /\ ~initialized
        /\ last.called => (last.result.documents = <<>> /\ last.result.source = "none")

\* C8: in the Ready state with the remote index available, a remote query that
\* succeeds, also with zero matches, is returned under the tag "pinecone" (the
\* remote tag) and the local store is not searched.
C8_RemoteSuccessNotFallingBack ==
    (/\ last.called
     /\ lifecycle = "Ready"
     /\ pinecone_available /\ index # None
     /\ ~last.inp.query_raises) =>
        /\ last.remote_queried
        /\ ~last.local_searched
        /\ last.result.source = "pinecone"
        /\ ~IsRaised(CallRemoteResponse)
        /\ last.result.documents = MatchItems(documents, CallRemoteResponse.value.matches)

\* C8's case: the remote query succeeded with zero matches
C8_Witness ==
    /\ last.called
    /\ lifecycle = "Ready"
    /\ last.remote_queried
    /\ ~last.inp.query_raises
    /\ last.result.source = "pinecone"
    /\ last.result.documents = <<>>
    /\ cache.documents # <<>>

\* C9: when the upsert fails during initialize(), initialize() still returns
\* True, the local store holds every chunk, and the remote index is off for the
\* retrievals that follow.
C9_UpsertFailureDisablesRemote ==
    run.upsert_failed =>
        /\ ~pinecone_available
        /\ run.returned # "false"
        /\ (pc = "idle") =>
              /\ run.returned = "true" /\ initialized /\ cache_populated
              /\ \A i \in 1..Len(run.chunks) :
                    \E j \in 1..Len(cache.documents) :
                        /\ cache.documents[j].id = run.chunks[i].id
                        /\ cache.documents[j].text = run.chunks[i].text
              /\ ODictKeys(cache.embeddings) # {}
        /\ last.called => (~last.remote_queried /\ last.result.source = "cache")

\* C9's case: the upsert failed, initialize() returned True and a retrieval was
\* served
C9_Witness ==
    /\ run.upsert_failed
    /\ ReturnedTrue
    /\ index # None
    /\ last.called
    /\ last.result.source = "cache"

\* The steps of initialize() in the order the code takes them
Steps == <<"chunk", "connect", "embed", "upsert", "populate", "ready">>
Rank(e) == CHOOSE k \in 1..Len(Steps) : Steps[k] = e
Before(e, i) == \E h \in 1..(i - 1) : trace[h] = e

\* C10: initialize() takes its steps in a fixed order: it chunks every
\* document, then connects, then embeds every chunk, then upserts (only, and
\* always, with a connected index), then populates the local store, and the
\* orchestrator becomes Ready only after all of them.
C10_StepOrder ==
    /\ \A i, j \in 1..Len(trace) :
            i < j => \/ Rank(trace[i]) < Rank(trace[j])
                     \/ (trace[i] = "upsert" /\ trace[j] = "upsert")
    /\ \A i \in 1..Len(trace) :
            /\ trace[i] = "connect" => Before("chunk", i)
            /\ trace[i] = "embed" => Before("connect", i)
            /\ trace[i] = "upsert" => (Before("embed", i) /\ run.connect = "connected")
            /\ trace[i] = "populate" =>
                    /\ Before("embed", i)
                    /\ (run.connect = "connected") => Before("upsert", i)
            /\ trace[i] = "ready" => Before("populate", i)
    /\ (pc # "idle") => documents = run.chunks
    /\ (pc \in {"upsert", "populate"}) => Len(embeddings) = Len(documents)
    /\ (lifecycle = "Ready") => (trace # <<>> /\ trace[Len(trace)] = "ready" /\ pc = "idle")

\* C10's case: an initialize() with a connected index ran every step
C10_Witness ==
    /\ lifecycle = "Ready"
    /\ trace = Steps

\* C11: a retrieve_context call changes nothing of the orchestrator or of the
\* stores: the flags, the index handle, the chunk list, the local store and
\* its backing file, and the remote index are as they were before the call,
\* also when the remote query fails.
C11_RetrieveReadsOnly ==
    [][(~last.called /\ last'.called) =>
          UNCHANGED <<initialized, pinecone_available, cache_populated, index, documents,
                      cache, cache_file, remote>>]_vars

\* C11's case: in the Ready state a call whose remote query failed has
\* returned, and the remote index is still on
C11_Witness ==
    /\ last.called
    /\ lifecycle = "Ready"
    /\ last.inp.query_raises
    /\ initialized /\ pinecone_available /\ cache_populated
    /\ cache.documents # <<>>

\* C13: in a call whose remote query failed and which then searched the local
\* store, the local search is made with the query vector of the remote query
\* (the metadata filter is rebuilt from the same arguments).
C13_SameQueryVector ==
    (last.called /\ last.remote_queried /\ last.local_searched) =>
        embed_text(last.inp.query, use_local_fallback, last.inp.provider_fails_cache)
            = embed_text(last.inp.query, use_local_fallback, last.inp.provider_fails_remote)

\* C14: an initialize() given an empty knowledge base returns True, the status
\* reports documents_indexed = 0, and every retrieval returns no documents.
C14_EmptyKnowledgeBase ==
    (pc = "idle" /\ run.kb_loaded /\ kb_data = KBEmpty) =>
        /\ run.returned = "true"
        /\ get_status.documents_indexed = 0
        /\ last.called => last.result.documents = <<>>

\* C15: the chunks of one initialize() run have pairwise distinct ids, each
\* with a sequence number from 1.
C15_ChunkIdsUnique ==
    /\ \A i, j \in 1..Len(documents) : i # j => documents[i].id # documents[j].id
    /\ \A i \in 1..Len(documents) : documents[i].id[2] >= 1

\* C16: after an initialize() the local store holds exactly the records of
\* that ingestion: one per chunk, none left from the backing file it was loaded
\* from or from an earlier ingestion, none twice.
C16_ReplacedWholesale ==
    ReturnedTrue =>
        /\ Len(cache.documents) = Len(run.chunks)
        /\ \A i \in 1..Len(cache.documents) :
            /\ cache.documents[i].id = run.chunks[i].id
            /\ cache.documents[i].text = run.chunks[i].text
            /\ cache.documents[i].metadata = run.chunks[i].metadata

\* A step of add_batch: the store gains documents
AddBatchStep == services_loaded /\ services_loaded' /\ Len(cache'.documents) > Len(cache.documents)

\* C17: add_batch persists the store atomically: whatever happens to the
\* write, a process that loads the backing file afterwards finds the complete
\* store of before the batch (as persisted or as in memory) or the complete
\* store of after the batch, never an empty or partial one.
C17_AtomicPersist ==
    [][AddBatchStep =>
          _load_cache(cache_file') \in {_load_cache(cache_file), cache, cache'}]_vars

\* The records of a store, each with the vector and the metadata filed under
\* its id, and how often a record occurs
RecordAt(c, i) ==
    [id |-> c.documents[i].id, text |-> c.documents[i].text,
     metadata |-> c.documents[i].metadata,
     embedding |-> IF ODictHas(c.embeddings, c.documents[i].id)
                   THEN <<ODictGet(c.embeddings, c.documents[i].id)>> ELSE <<>>,
     indexed |-> IF ODictHas(c.metadata_index, c.documents[i].id)
                 THEN <<ODictGet(c.metadata_index, c.documents[i].id)>> ELSE <<>>]
RecordsOf(c) == {RecordAt(c, i) : i \in 1..Len(c.documents)}
CountOf(c, r) == Cardinality({i \in 1..Len(c.documents) : RecordAt(c, i) = r})
SameRecords(a, b) ==
    /\ \A r \in RecordsOf(a) \cup RecordsOf(b) : CountOf(a, r) = CountOf(b, r)
    /\ ODictKeys(a.embeddings) = ODictKeys(b.embeddings)
    /\ ODictKeys(a.metadata_index) = ODictKeys(b.metadata_index)

C19_BadFileLoadsEmpty ==
    [][(~services_loaded /\ services_loaded' /\ cache_file \in {MissingFile, CorruptFile}) =>
          (cache' = EmptyCache /\ cache'.documents = <<>> /\ cache'.embeddings = <<>>
           /\ cache'.metadata_index = <<>>)]_vars

\* C19's case: a store constructed on a corrupt file is empty, and a search of
\* it has returned nothing
C19_Witness ==
    /\ services_loaded
    /\ cache_file = CorruptFile
    /\ cache = EmptyCache
    /\ last.called
    /\ last.result = Ok(<<>>)

\* C20: search returns at most top_k results, in non-increasing order of score.
C20_TopKSorted ==
    (last.called /\ "query_embedding" \in DOMAIN last.inp /\ ~IsRaised(last.result)) =>
        /\ Len(last.result.value) <= last.inp.top_k
        /\ \A i, j \in 1..Len(last.result.value) :
              i < j => last.result.value[i].score >= last.result.value[j].score

\* C20's case: the store holds more records than top_k, and the best one, which
\* the scan met last, came back first
C20_Witness ==
    /\ last.called
    /\ "query_embedding" \in DOMAIN last.inp
    /\ last.inp.top_k = 2
    /\ ~IsRaised(last.result)
    /\ Len(cache.documents) > last.inp.top_k
    /\ Len(cache.embeddings) >= 2
    /\ Len(last.result.value) = 2
    /\ last.result.value[1].score > last.result.value[2].score
    /\ last.result.value[1].id = cache.embeddings[Len(cache.embeddings)].k

\* C12: in the Ready state, a retrieval that gets no result from the remote
\* path (index unavailable, or query failed) while the local store has never
\* been populated returns the empty result tagged "none".
C12_NothingAvailableReturnsNone ==
    (/\ last.called
     /\ lifecycle = "Ready"
     /\ ~cache_populated
     /\ (~(pinecone_available /\ index # None) \/ last.inp.query_raises)) =>
        /\ last.result = NoneResult(last.inp.query)
        /\ ~last.local_searched

\* C12's case: the remote query was made and failed, and the store, which
\* holds records of its backing file, was never populated
C12_Witness ==
    /\ last.called
    /\ lifecycle = "Ready"
    /\ ~cache_populated
    /\ last.remote_queried
    /\ last.inp.query_raises
    /\ cache.documents # <<>>
    /\ last.result.source = "none"
    /\ last.result.documents = <<>>

SearchReturned == last.called /\ "query_embedding" \in DOMAIN last.inp
ClearReturned == last.called /\ "cleared" \in DOMAIN last.inp

\* the spec's filter: every filter key equals the record's metadata value
Admits(metadata, metadata_filter) ==
    \/ metadata_filter = None
    \/ \A k \in DOMAIN metadata_filter :
          k \in DOMAIN metadata /\ metadata[k] = metadata_filter[k]
AdmittedRecords(c, metadata_filter) ==
    {i \in 1..Len(c.documents) : Admits(c.documents[i].metadata, metadata_filter)}

\* C21: the metadata filter of search is a conjunction of equalities on the
\* record's metadata: every record returned is one the filter admits, a search
\* that asks for as many results as the store has records returns every
\* admitted record, and no filter makes search raise.
C21_FilterIsConjunction ==
    SearchReturned =>
        /\ ~IsRaised(last.result)
        /\ \A n \in 1..Len(last.result.value) :
              \E i \in AdmittedRecords(cache, last.inp.metadata_filter) :
                  /\ cache.documents[i].id = last.result.value[n].id
                  /\ cache.documents[i].metadata = last.result.value[n].metadata
        /\ last.inp.top_k >= Len(cache.documents) =>
              \A i \in AdmittedRecords(cache, last.inp.metadata_filter) :
                  \E n \in 1..Len(last.result.value) :
                      last.result.value[n].id = cache.documents[i].id

\* C22: after clear() the store holds no records (every search returns
\* nothing, the stats count no documents and no embeddings), the backing file
\* is gone, and a store constructed on the same path starts empty.
C22_ClearRemovesEverything ==
    ClearReturned =>
        /\ cache.documents = <<>>
        /\ \A q \in QueryVectors, k \in 0..MaxTopK, f \in StoreFilters :
              search(cache, q, k, f) = Ok(<<>>)
        /\ get_stats(cache, cache_file).total_documents = 0
        /\ get_stats(cache, cache_file).total_embeddings = 0
        /\ ~get_stats(cache, cache_file).cache_exists
        /\ cache_file = MissingFile
        /\ _load_cache(cache_file) = EmptyCache

\* C22's case: clear() has just returned on a store that held records and had
\* a backing file
C22_Witness ==
    /\ ClearReturned
    /\ last.inp.cleared >= 2
    /\ last.inp.file_existed
    /\ cache = EmptyCache
    /\ cache_file = MissingFile

EmbedTextReturned == last.called /\ "text" \in DOMAIN last.inp
EmbedDocumentsReturned == last.called /\ "texts" \in DOMAIN last.inp
\* the provider was asked and raised during the call that just returned
ProviderFailed ==
    /\ ~use_local_fallback
    /\ last.inp.fail_at \in 1..NumBatches(Len(last.inp.texts), embed_batch_size)

\* C23: embedding never fails the caller: embed_text returns a vector, and
\* embed_documents returns one vector per input text, in input order, whether
\* the provider is unconfigured, answers, or raises on any request.
C23_EmbeddingNeverFatal ==
    /\ EmbedTextReturned =>
          /\ Len(last.result) = embedding_dim
          /\ last.result \in {_local_embed(last.inp.text), provider_embed(last.inp.text)}
    /\ EmbedDocumentsReturned =>
          /\ Len(last.result) = Len(last.inp.texts)
          /\ \A i \in 1..Len(last.inp.texts) :
                last.result[i] \in {_local_embed(last.inp.texts[i]),
                                    provider_embed(last.inp.texts[i])}

\* C23's case: the provider raised on the second request batch of a call with
\* texts of both kinds, and the call returned a vector for each text
C23_Witness ==
    /\ EmbedDocumentsReturned
    /\ ProviderFailed
    /\ last.inp.fail_at = 2
    /\ Len(last.inp.texts) > embed_batch_size
    /\ last.inp.texts[1] # last.inp.texts[2]
    /\ Len(last.result) = Len(last.inp.texts)
    /\ last.result[1] # last.result[2]

\* C24: when the provider raises on any request batch of embed_documents, every
\* vector returned is the fallback embedding of its text: provider vectors and
\* fallback vectors never come back in one sequence.
C24_FallbackForWholeCall ==
    EmbedDocumentsReturned =>
        /\ ProviderFailed =>
              \A i \in 1..Len(last.inp.texts) :
                  last.result[i] = _local_embed(last.inp.texts[i])
        /\ \/ \A i \in 1..Len(last.result) : last.result[i] = _local_embed(last.inp.texts[i])
           \/ \A i \in 1..Len(last.result) : last.result[i] = provider_embed(last.inp.texts[i])

\* C24's case: the first request batch went through and the second raised;
\* the first text's vector is the fallback one, which is not the provider's
C24_Witness ==
    /\ EmbedDocumentsReturned
    /\ ProviderFailed
    /\ last.inp.fail_at = 2
    /\ last.result[1] = _local_embed(last.inp.texts[1])
    /\ last.result[1] # provider_embed(last.inp.texts[1])

\* C25: the fallback embedding is a function of the lower-cased, trimmed
\* text: any text with the same lower-cased, trimmed form has the vector the
\* call returned, and so has the same text embedded again.
C25_FallbackDeterministic ==
    (EmbedTextReturned /\ (use_local_fallback \/ last.inp.provider_fails)) =>
        \A t \in EmbedTexts :
            strip(lower(t)) = strip(lower(last.inp.text)) =>
                embed_text(t, use_local_fallback, last.inp.provider_fails) = last.result

\* C25's case: a text in upper case got the vector of its lower-cased form,
\* which is not the vector of another text
C25_Witness ==
    /\ EmbedTextReturned
    /\ use_local_fallback
    /\ last.inp.text = <<"A", " ", "B">>
    /\ last.result = _local_embed(<<"a", " ", "b">>)
    /\ last.result # _local_embed(<<"a">>)

\* C26: every scalar the fallback embedder combines from two digest bytes,
\* before normalization, lies in [-1, 1] (combine is in units of 1/255).
C26_ScalarInUnitRange ==
    (EmbedTextReturned /\ (use_local_fallback \/ last.inp.provider_fails)) =>
        \A i \in 1..embedding_dim :
            /\ RawEmbedding(sha256(strip(lower(last.inp.text))))[i] >= -255
            /\ RawEmbedding(sha256(strip(lower(last.inp.text))))[i] <= 255

EstimateReturned == last.called /\ "estimated" \in DOMAIN last.inp
ChunkReturned == last.called /\ "strategy" \in DOMAIN last.inp
\* round(n * 1.3): the nearest integer, a half going to the even neighbour as
\* Python's round does
RoundedTokens(n) ==
    IF (13 * n) % 10 < 5 THEN (13 * n) \div 10
    ELSE IF (13 * n) % 10 > 5 THEN (13 * n) \div 10 + 1
    ELSE IF ((13 * n) \div 10) % 2 = 0 THEN (13 * n) \div 10 ELSE (13 * n) \div 10 + 1

\* C27: the token estimate of a text is round(word_count(text) * 1.3), and the
\* tokens every strategy records for a chunk are that estimate of its text.
C27_EstimateIsRounded ==
    /\ EstimateReturned => last.result = RoundedTokens(word_count(last.inp.estimated))
    /\ (ChunkReturned /\ ~IsRaised(last.result)) =>
          \A k \in 1..Len(last.result.value) :
              last.result.value[k].metadata.tokens
                  = RoundedTokens(word_count(last.result.value[k].text))

\* C28: under each strategy a document with at least one word whose estimated
\* tokens are below chunk_size gives exactly one chunk, holding every word
\* once (no overlap content), for a chunker with overlap below chunk_size.
C28_ShortDocumentOneChunk ==
    (/\ ChunkReturned
     /\ last.inp.overlap < last.inp.chunk_size
     /\ word_count(last.inp.document) >= 1
     /\ estimate_tokens(last.inp.document) < last.inp.chunk_size) =>
        /\ ~IsRaised(last.result)
        /\ Len(last.result.value) = 1
        /\ split(last.result.value[1].text) = split(last.inp.document)

\* the chunks' word spans, taken in order, start at the first word, leave no
\* gap and end at the last word
SpansCover(chunks, words) ==
    LET RECURSIVE Rec(_, _)
        Rec(k, reach) ==
            IF k > Len(chunks) THEN reach = Len(words)
            ELSE \E start \in 0..reach :
                    /\ start + Len(split(chunks[k].text)) <= Len(words)
                    /\ split(chunks[k].text)
                          = SubSeq(words, start + 1, start + Len(split(chunks[k].text)))
                    /\ Rec(k + 1, IF start + Len(split(chunks[k].text)) > reach
                                  THEN start + Len(split(chunks[k].text)) ELSE reach)
    IN  Rec(1, 0)

\* C29: for a document with at least one word and any chunk_size and overlap
\* (overlap below chunk_size), the fixed strategy returns chunks of at most
\* chunk_size + overlap tokens whose word spans cover the document in order.
C29_FixedBoundedAndCovering ==
    (/\ ChunkReturned
     /\ last.inp.strategy = "fixed"
     /\ last.inp.overlap < last.inp.chunk_size
     /\ word_count(last.inp.document) >= 1) =>
        /\ ~IsRaised(last.result)
        /\ \A k \in 1..Len(last.result.value) :
              last.result.value[k].metadata.tokens <= last.inp.chunk_size + last.inp.overlap
        /\ SpansCover(last.result.value, split(last.inp.document))

SuiteReturned == last.called /\ "suite_outcomes" \in DOMAIN last.inp
Errored(r) == "error" \in DOMAIN r

\* C30: in the summary of run_validation_suite a case is passed iff its
\* match_ratio is at least 0.6, a case whose validation raised is failed, and
\* passed + failed = total_tests with pass_rate = passed / total_tests.
C30_SuiteSummaryConsistent ==
    SuiteReturned =>
        /\ \A i \in 1..Len(last.result.results) :
              IF Errored(last.result.results[i])
              THEN /\ IsRaised(last.inp.suite_outcomes[i])
                   /\ ~last.result.results[i].passed
              ELSE last.result.results[i].passed
                     <=> (10 * last.result.results[i].match_ratio.num
                             >= 6 * last.result.results[i].match_ratio.den)
        /\ last.result.total_tests = Len(last.result.results)
        /\ last.result.passed
              = Cardinality({i \in 1..Len(last.result.results) : last.result.results[i].passed})
        /\ last.result.passed + last.result.failed = last.result.total_tests
        /\ last.result.pass_rate.num * last.result.total_tests
              = last.result.passed * last.result.pass_rate.den

\* C30's case: one case matched exactly three of its five keywords and
\* passed, the other raised and counts as failed
C30_Witness ==
    /\ SuiteReturned
    /\ ~Errored(last.result.results[1])
    /\ last.result.results[1].match_ratio = [num |-> 3, den |-> 5]
    /\ last.result.results[1].passed
    /\ Errored(last.result.results[2])
    /\ last.result.passed = 1
    /\ last.result.failed = 1

\* the record a caller added under this id with this text and metadata
AddedRecord(r) ==
    CHOOSE rec \in StoreRecords :
        rec.id = r.id /\ rec.text = r.text /\ rec.metadata = r.metadata

\* C32: every result of search carries the text and metadata of a record of
\* the store together with the score of that record's own embedding against
\* the query, also when two added records share an id.
C32_ScoreOfSameRecord ==
    (SearchReturned /\ ~IsRaised(last.result)) =>
        \A n \in 1..Len(last.result.value) :
            /\ \E i \in 1..Len(cache.documents) :
                  /\ cache.documents[i].id = last.result.value[n].id
                  /\ cache.documents[i].text = last.result.value[n].text
                  /\ cache.documents[i].metadata = last.result.value[n].metadata
            /\ last.result.value[n].score
                  = cosine_similarity(last.inp.query_embedding,
                                      AddedRecord(last.result.value[n]).embedding).value

\* C34: the documents list, the embeddings map and the metadata index hold the
\* same ids, one entry per id, so get_stats reports as many documents as
\* embeddings.
C34_OneEntryPerId ==
    services_loaded =>
        /\ \A i, j \in 1..Len(cache.documents) :
              cache.documents[i].id = cache.documents[j].id => i = j
        /\ {cache.documents[i].id : i \in 1..Len(cache.documents)} = ODictKeys(cache.embeddings)
        /\ ODictKeys(cache.embeddings) = ODictKeys(cache.metadata_index)
        /\ get_stats(cache, cache_file).total_documents
              = get_stats(cache, cache_file).total_embeddings

\* where the first record with this id stands in the documents list
InsertedAt(c, doc_id) ==
    CHOOSE i \in 1..Len(c.documents) :
        c.documents[i].id = doc_id /\ \A j \in 1..(i - 1) : c.documents[j].id # doc_id

\* C35: results of equal score come back in the order in which their records
\* were inserted into the store.
C35_StableTieBreak ==
    (SearchReturned /\ ~IsRaised(last.result)) =>
        \A m, n \in 1..Len(last.result.value) :
            (m < n /\ last.result.value[m].score = last.result.value[n].score) =>
                InsertedAt(cache, last.result.value[m].id)
                    < InsertedAt(cache, last.result.value[n].id)

\* C35's case: two records with the same score against the query came back,
\* the one inserted first (under the larger id) in front
C35_Witness ==
    /\ SearchReturned
    /\ ~IsRaised(last.result)
    /\ Len(last.result.value) = 2
    /\ last.result.value[1].score = last.result.value[2].score
    /\ cache.documents[1].id = <<"doc", 2>>
    /\ last.result.value[1].id = <<"doc", 2>>
    /\ last.result.value[2].id = <<"doc", 1>>

NoBuffer == [chunks |-> <<>>, current_chunk |-> <<>>, current_tokens |-> 0, chunk_id |-> 0]

\* the loop state of chunk_by_paragraphs after the first k paragraphs
ParagraphState(text, k, size) ==
    ParagraphLoop(NoBuffer, SubSeq(split_paragraphs(text), 1, k), [type |-> "guide"], size)
\* the trailing 20% of a buffer, by character count
TrailingFifth(buffer) == SubSeq(buffer, Len(buffer) - (Len(buffer) \div 5) + 1, Len(buffer))
SeededWith(seed, sep, piece) == IF seed # <<>> THEN seed \o sep \o piece ELSE piece

\* C36: in the paragraph strategy, whenever the buffer is flushed the next
\* buffer is the trailing 20% of the flushed buffer, by its character count,
\* followed by the paragraph that overflowed.
C36_ParagraphOverlapIsFifth ==
    (ChunkReturned /\ last.inp.strategy = "paragraphs") =>
        \A k \in 1..Len(split_paragraphs(last.inp.document)) :
            (/\ ParagraphState(last.inp.document, k - 1, last.inp.chunk_size).current_chunk # <<>>
             /\ ParagraphState(last.inp.document, k - 1, last.inp.chunk_size).current_tokens
                   + estimate_tokens(split_paragraphs(last.inp.document)[k])
                   > last.inp.chunk_size) =>
                ParagraphState(last.inp.document, k, last.inp.chunk_size).current_chunk
                    = SeededWith(TrailingFifth(ParagraphState(last.inp.document, k - 1,
                                                   last.inp.chunk_size).current_chunk),
                                 <<"\n">>, split_paragraphs(last.inp.document)[k])

\* the loop state of chunk_by_sentences after the first k sentences
RECURSIVE SentenceState(_, _, _, _)
SentenceState(text, k, size, ovl) ==
    IF k = 0 THEN NoBuffer
    ELSE SentenceStep(SentenceState(text, k - 1, size, ovl), split_sentences(text)[k],
                      split_sentences(text), [type |-> "guide"], size, ovl)

\* C37: in the sentence strategy, when sentence k overflows the buffer, the
\* next buffer is the sentences just before sentence k, taken from the most
\* recent backwards while their estimated tokens fit the overlap budget,
\* followed by sentence k; also when sentences repeat.
C37_SentenceOverlapPrecedes ==
    (ChunkReturned /\ last.inp.strategy = "sentences") =>
        \A k \in 1..Len(split_sentences(last.inp.document)) :
            (/\ SentenceState(last.inp.document, k - 1, last.inp.chunk_size,
                              last.inp.overlap).current_chunk # <<>>
             /\ SentenceState(last.inp.document, k - 1, last.inp.chunk_size,
                              last.inp.overlap).current_tokens
                   + estimate_tokens(split_sentences(last.inp.document)[k])
                   > last.inp.chunk_size) =>
                SentenceState(last.inp.document, k, last.inp.chunk_size,
                              last.inp.overlap).current_chunk
                    = SeededWith(join(<<" ">>,
                                      SentenceOverlap(SubSeq(split_sentences(last.inp.document),
                                                             1, k - 1),
                                                      last.inp.overlap)),
                                 <<" ">>, split_sentences(last.inp.document)[k])

\* the query vector of the call held in last comes from the provider
QueryFromProvider == ~use_local_fallback /\ ~last.inp.provider_fails_cache

\* C33: when retrieve_context searches the local store after an initialize()
\* that returned True, the vector stored under the id of each chunk of that
\* run was produced by the method that produced the query vector: by the
\* provider iff the query vector was, by the local fallback otherwise.
C33_SameEmbeddingMethod ==
    (last.called /\ last.local_searched /\ run.returned = "true") =>
        \A n \in 1..Len(cache.embeddings) :
            (\E j \in 1..Len(documents) : documents[j].id = cache.embeddings[n].k) =>
                \E j \in 1..Len(documents) :
                    /\ documents[j].id = cache.embeddings[n].k
                    /\ cache.embeddings[n].v
                          = IF QueryFromProvider THEN provider_embed(documents[j].text)
                            ELSE _local_embed(documents[j].text)

\* C31: every retrieve_context call eventually returns: a call in flight,
\* whatever outbound call it waits in and whether or not the peer answers,
\* comes to the state where it has returned a result to its caller.
C31_EveryCallReturns == (pc # "idle") ~> (pc = "idle" /\ last.called)

====
